---------------------------- MODULE Spec2Model ----------------------------
(***************************************************************************)
(* Model of the privacy query engine: the privacy budget manager           *)
(* (main/budget), the query driver (main/core/driver.py) with the policy   *)
(* engine and the executor it calls, and the audit logger (main/audit).    *)
(*                                                                         *)
(* Epsilon and budget amounts are fixed-point numbers in units of 0.1, so  *)
(* that the default budget 1.0 is 10 and the driver's fallback epsilon 0.1 *)
(* is 1.  Time is counted in days.                                         *)
(***************************************************************************)
EXTENDS Integers, Sequences, FiniteSets, TLC

VARIABLES
    accounts,       \* PrivacyBudgetManager._accounts: user -> BudgetAccount or NoAccount
    transactions,   \* PrivacyBudgetManager._transactions: user -> list of epsilon_consumed
    now,            \* datetime.now(), in days
    lockOwner,      \* holder of PrivacyBudgetManager._lock (an RLock)
    burst,          \* the threads of a burst of consume_budget calls
    startRemaining, \* get_remaining_budget(BurstUser) when the burst starts
    enableBudget,   \* QueryDriver.enable_budget_management (with a budget_manager)
    drv,            \* the threads running QueryDriver.process_query
    served,         \* number of process_query calls started
    entries,        \* AuditLogger._entries
    last_hash,      \* AuditLogger._last_hash
    max_entries,    \* AuditLogger._max_entries
    auditLock,      \* holder of AuditLogger._lock (a Lock)
    app,            \* the threads appending to the audit log
    nextId,         \* number of entry ids generated
    tampered,       \* a retained entry was changed in place
    rlClock,        \* time.time(), in seconds
    limits,         \* RateLimiter.requests_per_second, requests_per_minute, user_requests_per_minute
    global_requests, \* RateLimiter._global_requests
    user_requests,  \* RateLimiter._user_requests
    rlStats,        \* RateLimiter._total_requests, _rejected_requests
    rl,             \* the threads calling RateLimiter.check_and_record
    rlAccepted,     \* the times at which accepted requests were recorded
    rlOverlapped,   \* two check_and_record calls were in progress at once
    cfgVersion,     \* ConfigManager._config: which of ConfigVersions is installed
    engine_sensitive, \* PolicyEngine.sensitive_columns: the version it was copied from
    ev,             \* the threads running PolicyEngine.evaluate
    evCount,        \* number of evaluate calls started
    reloader,       \* the thread running ConfigManager.reload
    ka,             \* one call of KAnonymizer(k).anonymize: arguments and result
    pol,            \* one call of PolicyEngine.evaluate: arguments and decision
    sync,           \* DistributedBudgetSync: lock table, clock and the calling threads
    loops,          \* the background loops: stop flag, thread field and workers per component
    mlast,          \* the last manager call of the schedule runs and the account it found
    bud,            \* DistributedBudgetSync: the local BudgetState of one user and the last call
    cons,           \* consume_budget callers of one DistributedBudgetSync: lock, its owner, clock, threads
    pend,           \* DistributedBudgetSync: pending operations, the sync loop and what callbacks were given
    coord,          \* DistributedCoordinator: one instance, its settings, lock and clock
    qc,             \* QueryCache: entries oldest first, limits, clock and last call
    cm              \* ConfigManager over its file: file, _config, _last_modified, last reload

mgrVars == <<accounts, transactions, now>>
burstVars == <<lockOwner, burst, startRemaining>>
drvVars == <<enableBudget, drv, served>>
auditVars == <<entries, last_hash, max_entries, auditLock, app, nextId, tampered>>
rlVars == <<rlClock, limits, global_requests, user_requests, rlStats, rl, rlAccepted,
            rlOverlapped>>
\* the components outside the query pipeline
cfgVars == <<cfgVersion, engine_sensitive, ev, evCount, reloader>>
sideVars == <<rlVars, cfgVars, ka, pol, sync, loops, mlast, bud, cons, pend, coord, qc, cm>>
pipelineVars == <<mgrVars, burstVars, drvVars, auditVars>>
vars == <<pipelineVars, sideVars>>

(***************************************************************************)
(* Bounds of the model                                                     *)
(***************************************************************************)
MaxEps == 2            \* epsilons are drawn from -MaxEps..MaxEps
MaxTotal == 4          \* set_budget totals are drawn from -1..MaxTotal
MaxClock == 2          \* the clock stops advancing at MaxClock days
MaxTx == 2             \* at most MaxTx transactions per user in the manager runs
MaxDebt == 3           \* consumed_budget is followed down to -MaxDebt
NumBurst == 2          \* threads in a burst
NumDriver == 2         \* threads running process_query
MaxRequests == 2       \* process_query calls in a run
NumAppenders == 2      \* threads appending to the audit log
MaxAppends == 3        \* audit entries created in a run
MaxEntries == 2        \* max_entries is 0 or MaxEntries
NumLimiter == 2        \* threads calling check_and_record
MaxCalls == 4          \* check_and_record calls in a run
MaxRlClock == 4        \* the limiter's clock stops advancing at MaxRlClock seconds
MaxLimit == 2          \* the rate limits are drawn from 1..MaxLimit
MaxRows == 3           \* rows of the data given to anonymize
MaxK == 3              \* k is drawn from 1..MaxK
NumEval == 1           \* threads running evaluate beside a reload
MaxEvals == 2          \* evaluate calls in a run

Users == {"alice", "anonymous"}
ManagerUsers == {"alice"}
BurstUser == "alice"
BurstThreads == 1..NumBurst
EpsValues == (0 - MaxEps)..MaxEps
TotalValues == (0 - 1)..MaxTotal

NoAccount == [absent |-> TRUE]
NoTime == 0 - 1
NoThread == <<>>

Max(a, b) == IF a >= b THEN a ELSE b

LimiterThreads == 1..NumLimiter
LimiterUser == "alice"
IdleCaller == [pc |-> "idle", user |-> ""]

\* a RateLimiter nobody calls
LimiterIdle ==
    /\ rlClock = 0
    /\ limits = [per_second |-> 1, per_minute |-> 1, user_per_minute |-> 1]
    /\ global_requests = <<>>
    /\ user_requests = [u \in {LimiterUser} |-> <<>>]
    /\ rlStats = [total |-> 0, rejected |-> 0]
    /\ rl = [t \in LimiterThreads |-> IdleCaller]
    /\ rlAccepted = <<>>
    /\ rlOverlapped = FALSE

EvalThreads == 1..NumEval
ConfigKeys == {"roles", "table_policies", "column_patterns", "default_epsilon",
               "classification_rules", "sensitive_columns"}
IdleEval == [pc |-> "idle", query |-> "invalid", role |-> "",
             seen |-> [k \in ConfigKeys |-> 1], decided |-> <<>>]

\* a ConfigManager with its first configuration and nobody evaluating
ConfigIdle ==
    /\ cfgVersion = 1
    /\ engine_sensitive = 1
    /\ ev = [t \in EvalThreads |-> IdleEval]
    /\ evCount = 0
    /\ reloader = "idle"

\* no call of anonymize
KAnonIdle ==
    ka = [pc |-> "idle", k |-> 1, data |-> <<>>, quasi_identifiers |-> <<>>,
          generalize |-> FALSE, result |-> <<>>, passes |-> FALSE]

\* no separate call of evaluate
PolicyIdle ==
    pol = [pc |-> "idle", valid |-> FALSE, tables |-> <<>>, columns |-> <<>>,
          aggregate |-> FALSE, role |-> "", version |-> 1, decision |-> <<>>]

\* no DistributedBudgetSync in the run
SyncIdle ==
    sync = [clock |-> 0, lock_timeout |-> 1, locks |-> <<>>, th |-> <<>>, calls |-> 0,
            last |-> <<>>]

\* no background loop was ever started
LoopsIdle == loops = <<>>

\* no schedule run
ScheduleIdle == mlast = <<>>

\* no budget state is kept
BudgetSyncIdle == bud = <<>>

\* nobody calls consume_budget
ConsumeIdle == cons = <<>>

\* no operation was ever pending
PendingIdle == pend = <<>>

\* no coordinator in the run
CoordIdle == coord = <<>>

\* no query cache in the run
CacheIdle == qc = <<>>

\* no configuration file in the run
ConfigFileIdle == cm = <<>>

SideIdle == LimiterIdle /\ ConfigIdle /\ KAnonIdle /\ PolicyIdle /\ SyncIdle /\ LoopsIdle /\ ScheduleIdle /\ BudgetSyncIdle /\ ConsumeIdle /\ PendingIdle /\ CoordIdle /\ CacheIdle /\ ConfigFileIdle

RECURSIVE SumSeq(_)
SumSeq(s) == IF s = <<>> THEN 0 ELSE Head(s) + SumSeq(Tail(s))

(***************************************************************************)
(* main/budget/models.py                                                   *)
(***************************************************************************)
Frequencies == {"daily", "weekly", "monthly", "never"}

\* PrivacyBudgetManager.DEFAULT_BUDGET = 1.0
DEFAULT_BUDGET == 10

\* BudgetAccount.remaining_budget
remaining_budget(a) == Max(0, a.total_budget - a.consumed_budget)

\* the timedelta each frequency is compared with
Period_with_six_day_week(f) == CASE f = "daily" -> 1
                                 [] f = "weekly" -> 6
                                 [] f = "monthly" -> 30
                                 [] OTHER -> 0

Period(f) == CASE f = "daily" -> 1
               [] f = "weekly" -> 7
               [] f = "monthly" -> 30
               [] OTHER -> 0

(***************************************************************************)
(* main/budget/manager.py                                                  *)
(***************************************************************************)
\* the account get_or_create_account builds for an unknown user
\* (role "default", ResetSchedule() = DAILY, last_reset None)
NewAccount == [total_budget |-> DEFAULT_BUDGET, consumed_budget |-> 0,
               frequency |-> "daily", last_reset |-> NoTime]

get_or_create_account(accts, u) ==
    IF accts[u] = NoAccount THEN [accts EXCEPT ![u] = NewAccount] ELSE accts

\* _check_and_reset_if_needed
check_and_reset_if_needed(a, t) ==
    IF a.frequency = "never" THEN a
    ELSE IF a.last_reset = NoTime THEN [a EXCEPT !.last_reset = t]
    ELSE IF t - a.last_reset >= Period(a.frequency)
         THEN [a EXCEPT !.consumed_budget = 0, !.last_reset = t]
         ELSE a

\* the first two statements of check_budget, consume_budget,
\* get_remaining_budget and get_budget_status
Observe(accts, u, t) ==
    LET a1 == get_or_create_account(accts, u)
    IN [a1 EXCEPT ![u] = check_and_reset_if_needed(@, t)]

\* check_budget: the BudgetCheckResult
check_budget(accts, u, eps, t) ==
    LET a == Observe(accts, u, t)[u]
    IN [allowed |-> remaining_budget(a) >= eps,
        remaining_budget |-> remaining_budget(a),
        requested_budget |-> eps]

\* consume_budget: return value
consume_allowed_within_total(accts, u, eps, t) ==
    ~(Observe(accts, u, t)[u].total_budget < eps)

consume_allowed(accts, u, eps, t) ==
    ~(remaining_budget(Observe(accts, u, t)[u]) < eps)

\* consume_budget: the accounts after the call
consume_accounts(accts, u, eps, t) ==
    LET a1 == Observe(accts, u, t)
    IN IF consume_allowed(accts, u, eps, t)
       THEN [a1 EXCEPT ![u].consumed_budget = @ + eps]
       ELSE a1

\* consume_budget: the transaction lists after the call
consume_transactions(accts, txs, u, eps, t) ==
    LET t1 == txs
    IN IF consume_allowed(accts, u, eps, t)
       THEN [t1 EXCEPT ![u] = Append(@, eps)]
       ELSE t1

\* the state of the burst threads while no burst runs
BurstIdle ==
    /\ lockOwner = NoThread
    /\ burst = [t \in BurstThreads |-> [pc |-> "off", eps |-> 0, result |-> FALSE]]
    /\ startRemaining = 0

(***************************************************************************)
(* main/policy/config.py and main/policy/engine.py                         *)
(*                                                                         *)
(* An AnalysisResult is a record [is_valid, tables, select_columns,        *)
(* is_aggregate_query, joins]; tables, select_columns and joins are        *)
(* sequences.  A configuration is a record of the keys ConfigManager reads.*)
(* A regular expression is given by the set of column names it matches.    *)
(***************************************************************************)
NoRole == ""

\* DataClassification, in the order of classification_order
ClassificationOrder == <<"public", "internal", "confidential", "restricted">>

ClassIndex(c) == CHOOSE i \in DOMAIN ClassificationOrder : ClassificationOrder[i] = c

\* ConfigManager.DEFAULT_CONFIG["classification_rules"]: the epsilon of each level
DefaultClassificationRules ==
    [public |-> 20, internal |-> 10, confidential |-> 5, restricted |-> 1]

\* RoleConfig with the defaults of get_role_config
RoleConfig(eps, allowed, denied, deniedCols) ==
    [epsilon |-> eps, allowed_tables |-> allowed, denied_tables |-> denied,
     denied_columns |-> deniedCols]

\* the configuration of the runs: the default configuration extended with
\* two roles, one column pattern and two table policies
BaseConfig ==
    [sensitive_columns |-> {"name", "email", "phone", "id_card", "ssn"},
     default_epsilon |-> 10,
     roles |-> [intern |-> RoleConfig(5, {}, {"salaries"}, {}),
                clerk |-> RoleConfig(10, {"users", "orders"}, {}, {"age"})],
     column_patterns |-> << [matches |-> {"card_no", "CARD_NO"},
                             privacy_method |-> "MASK", params_epsilon |-> <<>>] >>,
     table_policies |-> [salaries |-> "restricted", orders |-> "confidential"],
     classification_rules |-> DefaultClassificationRules]

\* str.lower() on the column names of the runs
Lower(col) == CASE col = "Name" -> "name"
                [] col = "CARD_NO" -> "card_no"
                [] OTHER -> col

\* ConfigManager.get_role_config: <<>> is None
get_role_config(cfg, role) ==
    IF role \in DOMAIN cfg.roles THEN <<cfg.roles[role]>> ELSE <<>>

Decision(action, eps, rule, table) ==
    [action |-> action, params_epsilon |-> eps, matched_rule |-> rule,
     reason_table |-> table]

\* the first element of sequence s that satisfies Test, as <<x>>, or <<>>
RECURSIVE FirstIn(_, _)
FirstIn(s, good) ==
    IF s = <<>> THEN <<>>
    ELSE IF Head(s) \in good THEN <<Head(s)>> ELSE FirstIn(Tail(s), good)

SeqRange(s) == {s[i] : i \in DOMAIN s}

\* PolicyEngine._check_table_access: <<>> is None
check_table_access(ar, rc) ==
    LET denied == FirstIn(ar.tables, rc.denied_tables)
        outside == FirstIn(ar.tables, SeqRange(ar.tables) \ rc.allowed_tables)
    IN IF denied # <<>>
       THEN <<Decision("REJECT", <<>>, "role_table_deny", denied[1])>>
       ELSE IF rc.allowed_tables # {} /\ outside # <<>>
            THEN <<Decision("REJECT", <<>>, "role_table_allow", outside[1])>>
            ELSE <<>>

\* PolicyEngine._get_highest_classification
RECURSIVE HighestFrom(_, _, _)
HighestFrom(cfg, tables, highest) ==
    IF tables = <<>> THEN highest
    ELSE LET t == Head(tables)
             c == IF t \in DOMAIN cfg.table_policies
                  THEN cfg.table_policies[t] ELSE highest
         IN HighestFrom(cfg, Tail(tables),
                        IF ClassIndex(c) > ClassIndex(highest) THEN c ELSE highest)

get_highest_classification(cfg, ar) == HighestFrom(cfg, ar.tables, "public")

\* PolicyEngine._check_column_patterns: <<>> is None
RECURSIVE FirstPattern(_, _)
FirstPattern(patterns, column) ==
    IF patterns = <<>> THEN <<>>
    ELSE IF column \in Head(patterns).matches THEN <<Head(patterns)>>
         ELSE FirstPattern(Tail(patterns), column)

RECURSIVE check_column_patterns(_, _)
check_column_patterns(cfg, columns) ==
    IF columns = <<>> THEN <<>>
    ELSE LET p == FirstPattern(cfg.column_patterns, Head(columns))
         IN IF p # <<>>
            THEN <<Decision(p[1].privacy_method, p[1].params_epsilon, "pattern", "")>>
            ELSE check_column_patterns(cfg, Tail(columns))

\* PolicyEngine._has_sensitive_columns
has_sensitive_columns(sens, ar) ==
    \E i \in DOMAIN ar.select_columns : Lower(ar.select_columns[i]) \in sens

Min(a, b) == IF a <= b THEN a ELSE b

\* PolicyEngine._create_dp_decision
create_dp_decision(cfg, rc, classification) ==
    LET base == IF rc # <<>> THEN rc[1].epsilon ELSE cfg.default_epsilon
        eps == Min(base, cfg.classification_rules[classification])
    IN Decision("DP", <<eps>>, "aggregation_rule", "")

\* PolicyEngine.evaluate
evaluate(cfg, sens, ar, user_role) ==
    LET rc == IF user_role # NoRole THEN get_role_config(cfg, user_role) ELSE <<>>
        access == IF rc # <<>> THEN check_table_access(ar, rc[1]) ELSE <<>>
        pattern == check_column_patterns(cfg, ar.select_columns)
    IN IF ~ar.is_valid THEN Decision("REJECT", <<>>, "invalid", "")
       ELSE IF access # <<>> THEN access[1]
       ELSE IF pattern # <<>> THEN pattern[1]
       ELSE IF ar.is_aggregate_query
            THEN create_dp_decision(cfg, rc, get_highest_classification(cfg, ar))
       ELSE IF has_sensitive_columns(sens, ar)
            THEN Decision("DeID", <<>>, "sensitive_column_rule", "")
       ELSE Decision("PASS", <<>>, "", "")

\* PolicyEngine.__init__: the engine's copy of the sensitive columns
EngineSensitiveColumns(cfg) ==
    IF cfg.sensitive_columns # {} THEN cfg.sensitive_columns
    ELSE {"name", "email", "phone", "id_card", "ssn", "mobile"}

(***************************************************************************)
(* main/audit/models.py and main/audit/logger.py                           *)
(*                                                                         *)
(* An Optional value is <<>> (None) or <<x>>.  A SHA-256 digest is taken   *)
(* to be collision free: the digest of a document is the document wrapped *)
(* in a one-element tuple, and two digests are equal exactly when the      *)
(* documents are.                                                          *)
(***************************************************************************)
Appenders == 1..NumAppenders

EventTypes == {"QUERY_SUBMITTED", "QUERY_ANALYZED", "PRIVACY_APPLIED", "QUERY_REJECTED",
               "BUDGET_CONSUMED", "BUDGET_RESET", "CONFIG_CHANGED", "SYSTEM_ERROR"}

\* EventType.value
EventTypeValue(e) ==
    CASE e = "QUERY_SUBMITTED" -> "query_submitted"
      [] e = "QUERY_ANALYZED" -> "query_analyzed"
      [] e = "PRIVACY_APPLIED" -> "privacy_applied"
      [] e = "QUERY_REJECTED" -> "query_rejected"
      [] e = "BUDGET_CONSUMED" -> "budget_consumed"
      [] e = "BUDGET_RESET" -> "budget_reset"
      [] e = "CONFIG_CHANGED" -> "config_changed"
      [] OTHER -> "system_error"

PrivacyMethods == {"DIFFERENTIAL_PRIVACY", "DEIDENTIFICATION", "K_ANONYMITY",
                   "L_DIVERSITY", "NONE"}

\* PrivacyMethod.value
PrivacyMethodValue(m) ==
    CASE m = "DIFFERENTIAL_PRIVACY" -> "differential_privacy"
      [] m = "DEIDENTIFICATION" -> "deidentification"
      [] m = "K_ANONYMITY" -> "k_anonymity"
      [] m = "L_DIVERSITY" -> "l_diversity"
      [] OTHER -> "none"

\* datetime.isoformat()
isoformat(t) == <<"T", t>>

\* QueryEvent as log_query_rejected builds it
QueryEvent(qid, user, t) ==
    [query_id |-> qid, user_id |-> user, original_sql |-> "SELECT 1", timestamp |-> t,
     tables_accessed |-> <<>>, columns_accessed |-> <<>>, query_type |-> "UNKNOWN",
     is_aggregation |-> FALSE, has_joins |-> FALSE, has_subqueries |-> FALSE,
     execution_time_ms |-> <<>>]

\* QueryEvent.to_dict
QueryEvent_to_dict(q) ==
    [query_id |-> q.query_id, user_id |-> q.user_id, original_sql |-> q.original_sql,
     timestamp |-> isoformat(q.timestamp), tables_accessed |-> q.tables_accessed,
     columns_accessed |-> q.columns_accessed, query_type |-> q.query_type,
     is_aggregation |-> q.is_aggregation, has_joins |-> q.has_joins,
     has_subqueries |-> q.has_subqueries, execution_time_ms |-> q.execution_time_ms]

\* PrivacyEvent as log_privacy_applied builds it
PrivacyEvent(qid, eps, t) ==
    [query_id |-> qid, privacy_method |-> "DIFFERENTIAL_PRIVACY", epsilon |-> <<eps>>,
     delta |-> <<>>, sensitivity |-> <<>>, k_value |-> <<>>, l_value |-> <<>>,
     noise_added |-> <<>>, columns_protected |-> <<>>, timestamp |-> t]

\* PrivacyEvent.to_dict
PrivacyEvent_to_dict(p) ==
    [query_id |-> p.query_id, privacy_method |-> PrivacyMethodValue(p.privacy_method),
     epsilon |-> p.epsilon, delta |-> p.delta, sensitivity |-> p.sensitivity,
     k_value |-> p.k_value, l_value |-> p.l_value, noise_added |-> p.noise_added,
     columns_protected |-> p.columns_protected, timestamp |-> isoformat(p.timestamp)]

NoHash == <<>>
EmptyMetadata == [k \in {} |-> 0]

\* AuditLogEntry._calculate_hash
calculate_hash_without_metadata(e) ==
    << [entry_id |-> e.entry_id,
        event_type |-> EventTypeValue(e.event_type),
        timestamp |-> isoformat(e.timestamp),
        user_id |-> e.user_id,
        query_event |-> IF e.query_event = <<>> THEN <<>>
                        ELSE <<QueryEvent_to_dict(e.query_event[1])>>,
        privacy_event |-> IF e.privacy_event = <<>> THEN <<>>
                          ELSE <<PrivacyEvent_to_dict(e.privacy_event[1])>>,
        rejection_reason |-> e.rejection_reason,
        previous_hash |-> e.previous_hash] >>

calculate_hash(e) ==
    << [entry_id |-> e.entry_id,
        event_type |-> EventTypeValue(e.event_type),
        timestamp |-> isoformat(e.timestamp),
        user_id |-> e.user_id,
        query_event |-> IF e.query_event = <<>> THEN <<>>
                        ELSE <<QueryEvent_to_dict(e.query_event[1])>>,
        privacy_event |-> IF e.privacy_event = <<>> THEN <<>>
                          ELSE <<PrivacyEvent_to_dict(e.privacy_event[1])>>,
        rejection_reason |-> e.rejection_reason,
        metadata |-> e.metadata,
        previous_hash |-> e.previous_hash] >>

\* AuditLogEntry.verify_integrity
verify_integrity(e) == e.entry_hash = calculate_hash(e)

\* AuditLogEntry(...) with __post_init__: the hash of the entry as constructed
AuditLogEntry(id, type, t, user, qe, pe, reason, meta) ==
    LET e == [entry_id |-> id, event_type |-> type, timestamp |-> t, user_id |-> user,
              query_event |-> qe, privacy_event |-> pe, rejection_reason |-> reason,
              metadata |-> meta, previous_hash |-> NoHash, entry_hash |-> NoHash]
    IN [e EXCEPT !.entry_hash = calculate_hash(e)]

LogKinds == {"privacy_applied", "query_rejected", "budget_consumed"}

\* the entry each log_* method constructs
NewEntry(kind, id, user, qid, t) ==
    CASE kind = "privacy_applied" ->
            AuditLogEntry(id, "PRIVACY_APPLIED", t, user, <<>>,
                          <<PrivacyEvent(qid, 1, t)>>, <<>>, EmptyMetadata)
      [] kind = "query_rejected" ->
            AuditLogEntry(id, "QUERY_REJECTED", t, user, <<QueryEvent(qid, user, t)>>,
                          <<>>, <<"insufficient_budget">>, EmptyMetadata)
      [] OTHER ->
            AuditLogEntry(id, "BUDGET_CONSUMED", t, user, <<>>, <<>>, <<>>,
                          [query_id |-> qid, epsilon_consumed |-> 1])

\* list[-n:]
LastN(s, n) == IF n = 0 \/ n >= Len(s) THEN s ELSE SubSeq(s, Len(s) - n + 1, Len(s))

\* AuditLogger.verify_chain_integrity
verify_chain_integrity(es) ==
    IF es = <<>> THEN TRUE
    ELSE /\ verify_integrity(es[1])
         /\ \A i \in 2..Len(es) :
               /\ verify_integrity(es[i])
               /\ es[i].previous_hash = es[i - 1].entry_hash

\* "with self._lock": threading.Lock is free
AuditLockFree_NoExclusion == TRUE

AuditLockFree == auditLock = NoThread

IdleAppender == [pc |-> "idle", entry |-> <<>>]

AuditIdle ==
    /\ entries = <<>>
    /\ last_hash = NoHash
    /\ max_entries = 0
    /\ auditLock = NoThread
    /\ app = [t \in Appenders |-> IdleAppender]
    /\ nextId = 0
    /\ tampered = FALSE

(***************************************************************************)
(* main/core/driver.py, main/core/context.py, main/executor                *)
(***************************************************************************)
DriverThreads == 1..NumDriver
NoUser == ""

\* the analysis results of the queries of the runs
Analysis(valid, tables, columns, aggregate, joins) ==
    [is_valid |-> valid, tables |-> tables, select_columns |-> columns,
     is_aggregate_query |-> aggregate, joins |-> joins]

Queries ==
    [count_users |-> Analysis(TRUE, <<"users">>, <<>>, TRUE, <<>>),
     avg_salaries |-> Analysis(TRUE, <<"salaries">>, <<>>, TRUE, <<>>),
     select_id |-> Analysis(TRUE, <<"users">>, <<"id">>, FALSE, <<>>),
     select_name |-> Analysis(TRUE, <<"users">>, <<"Name">>, FALSE, <<>>),
     invalid |-> Analysis(FALSE, <<>>, <<>>, FALSE, <<>>),
     join_count |-> Analysis(TRUE, <<"orders", "users">>, <<>>, TRUE, <<"INNER">>)]

QueryNames == DOMAIN Queries
RoleNames == {NoRole, "intern"}

\* a thread that is not inside process_query and has answered nothing
IdleThread ==
    [pc |-> "idle", user |-> NoUser, role |-> NoRole, query |-> "invalid",
     has_fields |-> FALSE, rid |-> 0, debit |-> 0, ntx |-> 0, executed |-> FALSE,
     failed |-> FALSE, resp |-> "none"]

DriverIdle ==
    /\ enableBudget = FALSE
    /\ drv = [t \in DriverThreads |-> IdleThread]
    /\ served = 0

\* process_query line 179: self.policy_engine.evaluate(analysis_result)
policy_decision(th) ==
    evaluate(BaseConfig, EngineSensitiveColumns(BaseConfig), Queries[th.query], NoRole)

\* _check_and_consume_budget line 214: context.user_id or "anonymous"
budget_user(th) == IF th.user # NoUser THEN th.user ELSE "anonymous"

\* _check_and_consume_budget lines 217-219: getattr(decision, 'epsilon', 0.1),
\* replaced by params['epsilon'] when the decision has one
request_epsilon(th) ==
    LET d == policy_decision(th)
    IN IF d.params_epsilon # <<>> THEN d.params_epsilon[1] ELSE 1

\* QueryExecutor.execute: the type of the response
response_type(d, backend_ok) ==
    IF d.action = "REJECT" THEN "ERROR"
    ELSE IF ~backend_ok THEN "ERROR"
    ELSE IF d.action \in {"DP", "DeID"} THEN d.action
    ELSE "PASS"

InitDriver ==
    /\ SideIdle
    /\ accounts = [u \in Users |-> NoAccount]
    /\ transactions = [u \in Users |-> <<>>]
    /\ now = 0
    /\ BurstIdle
    /\ enableBudget \in BOOLEAN
    /\ drv = [t \in DriverThreads |-> IdleThread]
    /\ served = 0
    /\ AuditIdle

\* process_query lines 173-182: context, analysis, policy decision
DStart(t, user, role, q, fields) ==
    /\ drv[t].pc \in {"idle", "done"}
    /\ served < MaxRequests
    /\ served' = served + 1
    /\ drv' = [drv EXCEPT ![t] =
                  [IdleThread EXCEPT !.pc = IF enableBudget THEN "check" ELSE "uplift",
                                     !.user = user, !.role = role, !.query = q,
                                     !.has_fields = fields, !.rid = served']]
    /\ UNCHANGED <<sideVars, mgrVars, burstVars, enableBudget, auditVars>>

\* _check_and_consume_budget line 222 and process_query lines 184-191
DCheckBudget(t) ==
    /\ drv[t].pc = "check"
    /\ accounts' = Observe(accounts, budget_user(drv[t]), now)
    /\ IF check_budget(accounts, budget_user(drv[t]), request_epsilon(drv[t]), now).allowed
       THEN drv' = [drv EXCEPT ![t].pc = "consume"]
       ELSE drv' = [drv EXCEPT ![t].pc = "done", ![t].resp = "insufficient_budget"]
    /\ UNCHANGED <<sideVars, transactions, now, burstVars, enableBudget, served, auditVars>>

\* _check_and_consume_budget lines 224-232: the arguments context.query_id and
\* context.metadata are evaluated first, then consume_budget runs; its
\* return value is dropped
DConsume(t) ==
    /\ drv[t].pc = "consume"
    /\ LET u == budget_user(drv[t])
           eps == request_epsilon(drv[t])
       IN IF ~drv[t].has_fields
          THEN /\ drv' = [drv EXCEPT ![t].pc = "done", ![t].resp = "AttributeError"]
               /\ UNCHANGED <<accounts, transactions>>
          ELSE /\ accounts' = consume_accounts(accounts, u, eps, now)
               /\ transactions' = consume_transactions(accounts, transactions, u, eps, now)
               /\ drv' = [drv EXCEPT
                             ![t].pc = "uplift",
                             ![t].debit = IF consume_allowed(accounts, u, eps, now)
                                          THEN eps ELSE 0,
                             ![t].ntx = IF consume_allowed(accounts, u, eps, now)
                                        THEN 1 ELSE 0]
    /\ UNCHANGED <<sideVars, now, burstVars, enableBudget, served, auditVars>>

\* process_query lines 193-196: the uplift is stored in context.metadata
DUplift(t) ==
    /\ drv[t].pc = "uplift"
    /\ IF Queries[drv[t].query].joins # <<>> /\ ~drv[t].has_fields
       THEN drv' = [drv EXCEPT ![t].pc = "done", ![t].resp = "AttributeError"]
       ELSE drv' = [drv EXCEPT ![t].pc = "execute"]
    /\ UNCHANGED <<sideVars, mgrVars, burstVars, enableBudget, served, auditVars>>

\* process_query lines 198-204 with QueryExecutor.execute: a REJECT decision
\* is answered without running the query; the backend may fail
DExecute(t, backend_ok) ==
    /\ drv[t].pc = "execute"
    /\ LET d == policy_decision(drv[t])
           ran == d.action # "REJECT"
       IN drv' = [drv EXCEPT
                     ![t].pc = IF enableBudget /\ drv[t].user # NoUser
                               THEN "status" ELSE "done",
                     ![t].executed = ran,
                     ![t].failed = ran /\ ~backend_ok,
                     ![t].resp = response_type(d, backend_ok)]
    /\ UNCHANGED <<sideVars, mgrVars, burstVars, enableBudget, served, auditVars>>

\* process_query lines 207-210: get_budget_status
DStatus(t) ==
    /\ drv[t].pc = "status"
    /\ accounts' = Observe(accounts, drv[t].user, now)
    /\ drv' = [drv EXCEPT ![t].pc = "done"]
    /\ UNCHANGED <<sideVars, transactions, now, burstVars, enableBudget, served, auditVars>>

DTick ==
    /\ now < MaxClock
    /\ now' = now + 1
    /\ UNCHANGED <<sideVars, accounts, transactions, burstVars, drvVars, auditVars>>

NextDriver ==
    \/ \E t \in DriverThreads, user \in {NoUser, "alice"}, role \in RoleNames,
          q \in QueryNames, fields \in BOOLEAN : DStart(t, user, role, q, fields)
    \/ \E t \in DriverThreads : DCheckBudget(t)
    \/ \E t \in DriverThreads : DConsume(t)
    \/ \E t \in DriverThreads : DUplift(t)
    \/ \E t \in DriverThreads, backend_ok \in BOOLEAN : DExecute(t, backend_ok)
    \/ \E t \in DriverThreads : DStatus(t)
    \/ DTick

SpecDriver == InitDriver /\ [][NextDriver]_vars

\* the thread is inside process_query or has returned from it
InRequest(t) == drv[t].pc # "idle"

\* the call has returned (a response, insufficient_budget, or an exception)
Returned(t) == drv[t].pc = "done"

\* the budget step let the request through to the rest of process_query
PassedBudgetStep(t) ==
    /\ enableBudget
    /\ \/ drv[t].pc \in {"uplift", "execute", "status"}
       \/ Returned(t) /\ drv[t].resp \in {"DP", "DeID", "PASS", "ERROR"}
          /\ (drv[t].executed \/ policy_decision(drv[t]).action = "REJECT")

\* the audit entries of one type that carry the id of a request
AuditEntriesOf(type, rid) ==
    {i \in DOMAIN entries :
        /\ entries[i].event_type = type
        /\ \/ entries[i].privacy_event # <<>> /\ entries[i].privacy_event[1].query_id = rid
           \/ entries[i].query_event # <<>> /\ entries[i].query_event[1].query_id = rid
           \/ /\ "query_id" \in DOMAIN entries[i].metadata
              /\ entries[i].metadata.query_id = rid}

\* C3: the driver's check and consume are one critical section: a request
\* (with a context that provides query_id and metadata) that the budget step
\* lets through to execution has been debited its epsilon, so of two
\* concurrent requests of one user of which the budget covers only one, at
\* most one is allowed and goes on to execution.
C3_CheckConsumeAtomic ==
    \A t \in DriverThreads :
        (drv[t].has_fields /\ PassedBudgetStep(t)) =>
            drv[t].debit = request_epsilon(drv[t])

\* C4: with budget management enabled, a request for an aggregate query
\* whose epsilon fits the remaining budget, and whose execution succeeds,
\* returns a response of type DP and has debited exactly that epsilon.
C4_AggregateDebited ==
    \A t \in DriverThreads :
        ( /\ enableBudget
          /\ Returned(t)
          /\ policy_decision(drv[t]).action = "DP"
          /\ drv[t].resp # "insufficient_budget"
          /\ ~drv[t].failed ) =>
            /\ drv[t].resp = "DP"
            /\ drv[t].debit = request_epsilon(drv[t])

\* C5: every request answered with the DP action has consumed a strictly
\* positive epsilon and recorded exactly one BudgetTransaction, exactly one
\* BUDGET_CONSUMED audit entry and exactly one PRIVACY_APPLIED audit entry.
C5_DPAnswerRecorded ==
    \A t \in DriverThreads :
        (Returned(t) /\ drv[t].resp = "DP") =>
            /\ drv[t].debit > 0
            /\ drv[t].ntx = 1
            /\ Cardinality(AuditEntriesOf("BUDGET_CONSUMED", drv[t].rid)) = 1
            /\ Cardinality(AuditEntriesOf("PRIVACY_APPLIED", drv[t].rid)) = 1

\* C6: with budget management enabled, a request decided PASS, DeID or
\* REJECT does not enter the budget step, is never refused with
\* insufficient_budget, and leaves the consumed budget and the transaction
\* list as they were.
C6_BudgetOnlyForDP ==
    \A t \in DriverThreads :
        ( /\ enableBudget
          /\ InRequest(t)
          /\ policy_decision(drv[t]).action \in {"PASS", "DeID", "REJECT"} ) =>
            /\ drv[t].pc \notin {"check", "consume"}
            /\ drv[t].resp # "insufficient_budget"
            /\ drv[t].debit = 0
            /\ drv[t].ntx = 0

\* C7: a call of process_query that does not return a successful answer
\* (the executor failed, the request was refused, an exception was raised)
\* has left the user's budget as it was: what was debited is refunded.
C7_FailureRefunded ==
    \A t \in DriverThreads :
        ( /\ Returned(t)
          /\ drv[t].resp \in {"ERROR", "insufficient_budget", "AttributeError"} ) =>
            drv[t].debit = 0

\* the role of the request denies one of the queried tables
RoleDeniesTable(t) ==
    LET rc == get_role_config(BaseConfig, drv[t].role)
    IN /\ drv[t].role # NoRole
       /\ rc # <<>>
       /\ Queries[drv[t].query].is_valid
       /\ check_table_access(Queries[drv[t].query], rc[1]) # <<>>

\* C8: the policy is evaluated with the request's user_role: when the role
\* denies a queried table the query is not executed, and the response is of
\* type ERROR for a decision whose reason names the table.
C8_RoleDenialEnforced ==
    \A t \in DriverThreads :
        (InRequest(t) /\ RoleDeniesTable(t)) =>
            /\ ~drv[t].executed
            /\ Returned(t) =>
                  /\ drv[t].resp = "ERROR"
                  /\ policy_decision(drv[t]).action = "REJECT"
                  /\ policy_decision(drv[t]).reason_table \in
                        SeqRange(Queries[drv[t].query].tables)

(***************************************************************************)
(* Sequential use of the manager: one call at a time                       *)
(***************************************************************************)
InitManager ==
    /\ SideIdle
    /\ accounts = [u \in Users |-> NoAccount]
    /\ transactions = [u \in Users |-> <<>>]
    /\ now = 0
    /\ BurstIdle
    /\ DriverIdle
    /\ AuditIdle

MCheckBudget(u, eps) ==
    /\ accounts' = Observe(accounts, u, now)
    /\ UNCHANGED <<sideVars, transactions, now, burstVars, drvVars, auditVars>>

MConsumeBudget(u, eps) ==
    /\ Len(transactions[u]) < MaxTx
    /\ consume_accounts(accounts, u, eps, now)[u].consumed_budget >= 0 - MaxDebt
    /\ accounts' = consume_accounts(accounts, u, eps, now)
    /\ transactions' = consume_transactions(accounts, transactions, u, eps, now)
    /\ UNCHANGED <<sideVars, now, burstVars, drvVars, auditVars>>

MGetRemainingBudget(u) ==
    /\ accounts' = Observe(accounts, u, now)
    /\ UNCHANGED <<sideVars, transactions, now, burstVars, drvVars, auditVars>>

MResetBudget(u) ==
    /\ accounts' = [get_or_create_account(accounts, u) EXCEPT
                        ![u].consumed_budget = 0, ![u].last_reset = now]
    /\ UNCHANGED <<sideVars, transactions, now, burstVars, drvVars, auditVars>>

MSetBudget(u, total) ==
    /\ accounts' = [get_or_create_account(accounts, u) EXCEPT ![u].total_budget = total]
    /\ UNCHANGED <<sideVars, transactions, now, burstVars, drvVars, auditVars>>

MSetResetSchedule(u, f) ==
    /\ accounts' = [get_or_create_account(accounts, u) EXCEPT ![u].frequency = f]
    /\ UNCHANGED <<sideVars, transactions, now, burstVars, drvVars, auditVars>>

Tick ==
    /\ now < MaxClock
    /\ now' = now + 1
    /\ UNCHANGED <<sideVars, accounts, transactions, burstVars, drvVars, auditVars>>

NextManager ==
    \/ \E u \in ManagerUsers, eps \in EpsValues : MCheckBudget(u, eps)
    \/ \E u \in ManagerUsers, eps \in EpsValues : MConsumeBudget(u, eps)
    \/ \E u \in ManagerUsers : MGetRemainingBudget(u)
    \/ \E u \in ManagerUsers : MResetBudget(u)
    \/ \E u \in ManagerUsers, total \in TotalValues : MSetBudget(u, total)
    \/ \E u \in ManagerUsers, f \in Frequencies : MSetResetSchedule(u, f)
    \/ Tick

SpecManager == InitManager /\ [][NextManager]_vars

\* C1: every account always satisfies 0 <= consumed_budget <= total_budget
\* and its reported remaining budget equals total_budget - consumed_budget.
C1_BudgetInvariant ==
    \A u \in Users :
        accounts[u] # NoAccount =>
            /\ 0 <= accounts[u].consumed_budget
            /\ accounts[u].consumed_budget <= accounts[u].total_budget
            /\ remaining_budget(accounts[u])
                   = accounts[u].total_budget - accounts[u].consumed_budget

(***************************************************************************)
(* A burst: NumBurst threads call consume_budget(BurstUser, eps) at once.  *)
(* Each statement of consume_budget is one step, taken while the thread    *)
(* holds the manager's RLock.                                              *)
(***************************************************************************)
\* the accounts a burst can start from: any total, any consumption within
\* it, the first observation already made (last_reset recorded)
BurstAccounts ==
    { [total_budget |-> tot, consumed_budget |-> c, frequency |-> f,
       last_reset |-> 0] :
          tot \in 1..MaxTotal, c \in 0..MaxTotal, f \in {"daily", "never"} }

\* "with self._lock": threading.RLock is free, or held by the caller
LockAvailable_NoExclusion(t) == TRUE

LockAvailable(t) == lockOwner = NoThread \/ lockOwner = <<t>>

InitBurst ==
    /\ SideIdle
    /\ \E a \in BurstAccounts :
          /\ a.consumed_budget <= a.total_budget
          /\ accounts = [u \in Users |-> IF u = BurstUser THEN a ELSE NoAccount]
          /\ startRemaining = remaining_budget(a)
    /\ transactions = [u \in Users |-> <<>>]
    /\ now = 0
    /\ lockOwner = NoThread
    /\ burst \in [BurstThreads -> [pc : {"call"}, eps : EpsValues, result : {FALSE}]]
    /\ DriverIdle
    /\ AuditIdle

SetPc(t, p) == [burst EXCEPT ![t].pc = p]

\* manager.py line 141: with self._lock
BAcquire(t) ==
    /\ burst[t].pc = "call"
    /\ LockAvailable(t)
    /\ lockOwner' = <<t>>
    /\ burst' = SetPc(t, "observe")
    /\ UNCHANGED <<sideVars, mgrVars, startRemaining, drvVars, auditVars>>

\* lines 142-145: get_or_create_account, _check_and_reset_if_needed
BObserve(t) ==
    /\ burst[t].pc = "observe"
    /\ accounts' = Observe(accounts, BurstUser, now)
    /\ burst' = SetPc(t, "check")
    /\ UNCHANGED <<sideVars, transactions, now, lockOwner, startRemaining, drvVars, auditVars>>

\* lines 148-149: if account.remaining_budget < epsilon: return False
BCheck(t) ==
    /\ burst[t].pc = "check"
    /\ IF remaining_budget(accounts[BurstUser]) < burst[t].eps
       THEN /\ burst' = [burst EXCEPT ![t].pc = "done", ![t].result = FALSE]
            /\ lockOwner' = IF lockOwner = <<t>> THEN NoThread ELSE lockOwner
       ELSE /\ burst' = SetPc(t, "update")
            /\ UNCHANGED lockOwner
    /\ UNCHANGED <<sideVars, mgrVars, startRemaining, drvVars, auditVars>>

\* line 152: account.consumed_budget += epsilon
BUpdate(t) ==
    /\ burst[t].pc = "update"
    /\ accounts' = [accounts EXCEPT ![BurstUser].consumed_budget = @ + burst[t].eps]
    /\ burst' = SetPc(t, "record")
    /\ UNCHANGED <<sideVars, transactions, now, lockOwner, startRemaining, drvVars, auditVars>>

\* lines 156-168: append the transaction, return True
BRecord(t) ==
    /\ burst[t].pc = "record"
    /\ transactions' = [transactions EXCEPT ![BurstUser] = Append(@, burst[t].eps)]
    /\ burst' = [burst EXCEPT ![t].pc = "done", ![t].result = TRUE]
    /\ lockOwner' = IF lockOwner = <<t>> THEN NoThread ELSE lockOwner
    /\ UNCHANGED <<sideVars, accounts, now, startRemaining, drvVars, auditVars>>

BTick ==
    /\ now < MaxClock
    /\ now' = now + 1
    /\ UNCHANGED <<sideVars, accounts, transactions, burstVars, drvVars, auditVars>>

NextBurst ==
    \/ \E t \in BurstThreads : BAcquire(t)
    \/ \E t \in BurstThreads : BObserve(t)
    \/ \E t \in BurstThreads : BCheck(t)
    \/ \E t \in BurstThreads : BUpdate(t)
    \/ \E t \in BurstThreads : BRecord(t)
    \/ BTick

SpecBurst == InitBurst /\ [][NextBurst]_vars

RECURSIVE SumOver(_, _)
SumOver(f, S) ==
    IF S = {} THEN 0
    ELSE LET x == CHOOSE y \in S : TRUE IN f[x] + SumOver(f, S \ {x})

Succeeded == {t \in BurstThreads : burst[t].pc = "done" /\ burst[t].result}
BurstDone == \A t \in BurstThreads : burst[t].pc = "done"
SameEps == \A s, t \in BurstThreads : burst[s].eps = burst[t].eps
GrantedEps == SumOver([t \in BurstThreads |-> burst[t].eps], Succeeded)
RequestedEps == SumOver([t \in BurstThreads |-> burst[t].eps], BurstThreads)

\* no scheduled reset has fallen due since the burst started
NoResetDue ==
    \/ accounts[BurstUser].frequency = "never"
    \/ now < Period(accounts[BurstUser].frequency)

\* C2 as stated: in every interleaving of a burst the epsilons of the calls
\* that returned true sum to at most the remaining budget R at the start,
\* and when all epsilons are equal and the requests total more than R,
\* exactly floor(R / epsilon) calls return true.
C2_BurstAsStated ==
    /\ GrantedEps <= startRemaining
    /\ (BurstDone /\ SameEps /\ RequestedEps > startRemaining)
          => Cardinality(Succeeded) = startRemaining \div burst[1].eps

\* C2 amended: the same, as long as no scheduled reset falls due during
\* the burst.
C2_BurstNoReset ==
    NoResetDue =>
        /\ GrantedEps <= startRemaining
        /\ (BurstDone /\ SameEps /\ RequestedEps > startRemaining)
              => Cardinality(Succeeded) = startRemaining \div burst[1].eps

\* a finished burst of equal epsilons asking for more than R, of which
\* some calls were granted and some refused, with no reset due
C2_Witness ==
    /\ BurstDone /\ SameEps /\ NoResetDue
    /\ RequestedEps > startRemaining
    /\ Succeeded # {} /\ Succeeded # BurstThreads
    /\ accounts[BurstUser].frequency = "daily"

(***************************************************************************)
(* The audit log: threads append entries through the log_* methods; each   *)
(* statement of _add_entry is one step.  Afterwards one field of one       *)
(* retained entry may be changed in place.                                 *)
(***************************************************************************)
InitAudit ==
    /\ SideIdle
    /\ accounts = [u \in Users |-> NoAccount]
    /\ transactions = [u \in Users |-> <<>>]
    /\ now = 0
    /\ BurstIdle
    /\ DriverIdle
    /\ entries = <<>>
    /\ last_hash = NoHash
    /\ max_entries \in {0, MaxEntries}
    /\ auditLock = NoThread
    /\ app = [t \in Appenders |-> IdleAppender]
    /\ nextId = 0
    /\ tampered = FALSE

\* a log_* method up to its call of _add_entry: the entry is constructed
ABegin(t, kind, user) ==
    /\ ~tampered
    /\ app[t].pc = "idle"
    /\ nextId < MaxAppends
    /\ nextId' = nextId + 1
    /\ app' = [app EXCEPT ![t] = [pc |-> "lock",
                                  entry |-> <<NewEntry(kind, nextId, user, nextId, now)>>]]
    /\ UNCHANGED <<sideVars, mgrVars, burstVars, drvVars, entries, last_hash, max_entries,
                   auditLock, tampered>>

\* logger.py line 51: with self._lock
ALock(t) ==
    /\ app[t].pc = "lock"
    /\ AuditLockFree
    /\ auditLock' = <<t>>
    /\ app' = [app EXCEPT ![t].pc = "previous"]
    /\ UNCHANGED <<sideVars, mgrVars, burstVars, drvVars, entries, last_hash, max_entries,
                   nextId, tampered>>

\* line 53: entry.previous_hash = self._last_hash
APrevious(t) ==
    /\ app[t].pc = "previous"
    /\ app' = [app EXCEPT ![t].pc = "hash", ![t].entry[1].previous_hash = last_hash]
    /\ UNCHANGED <<sideVars, mgrVars, burstVars, drvVars, entries, last_hash, max_entries,
                   auditLock, nextId, tampered>>

\* line 54: entry.entry_hash = entry._calculate_hash()
AHash(t) ==
    /\ app[t].pc = "hash"
    /\ app' = [app EXCEPT ![t].pc = "last",
                          ![t].entry[1].entry_hash = calculate_hash(app[t].entry[1])]
    /\ UNCHANGED <<sideVars, mgrVars, burstVars, drvVars, entries, last_hash, max_entries,
                   auditLock, nextId, tampered>>

\* line 55: self._last_hash = entry.entry_hash
ALast(t) ==
    /\ app[t].pc = "last"
    /\ last_hash' = app[t].entry[1].entry_hash
    /\ app' = [app EXCEPT ![t].pc = "append"]
    /\ UNCHANGED <<sideVars, mgrVars, burstVars, drvVars, entries, max_entries, auditLock,
                   nextId, tampered>>

\* line 57: self._entries.append(entry)
AAppend(t) ==
    /\ app[t].pc = "append"
    /\ entries' = Append(entries, app[t].entry[1])
    /\ app' = [app EXCEPT ![t].pc = "truncate"]
    /\ UNCHANGED <<sideVars, mgrVars, burstVars, drvVars, last_hash, max_entries, auditLock,
                   nextId, tampered>>

\* lines 60-63: drop the oldest entries, release the lock, return
ATruncate(t) ==
    /\ app[t].pc = "truncate"
    /\ entries' = IF Len(entries) > max_entries THEN LastN(entries, max_entries)
                  ELSE entries
    /\ auditLock' = IF auditLock = <<t>> THEN NoThread ELSE auditLock
    /\ app' = [app EXCEPT ![t] = IdleAppender]
    /\ UNCHANGED <<sideVars, mgrVars, burstVars, drvVars, last_hash, max_entries, nextId, tampered>>

AuditQuiet == \A t \in Appenders : app[t].pc = "idle"

\* the values a field of an entry can be overwritten with
EntryFields == {"entry_id", "event_type", "timestamp", "user_id", "query_event",
                "privacy_event", "rejection_reason", "metadata", "previous_hash",
                "entry_hash"}

KnownHashes == {NoHash} \cup {entries[i].entry_hash : i \in DOMAIN entries}
                        \cup {entries[i].previous_hash : i \in DOMAIN entries}

EntryFieldValues(f) ==
    CASE f = "entry_id" -> 0..MaxAppends
      [] f = "event_type" -> EventTypes
      [] f = "timestamp" -> 0..MaxClock
      [] f = "user_id" -> {"alice", "mallory"}
      [] f = "query_event" -> {<<>>, <<QueryEvent(0, "alice", 0)>>}
      [] f = "privacy_event" -> {<<>>, <<PrivacyEvent(0, 1, 0)>>}
      [] f = "rejection_reason" -> {<<>>, <<"insufficient_budget">>, <<"forged">>}
      [] f = "metadata" -> {EmptyMetadata, [query_id |-> 0, epsilon_consumed |-> 1],
                            [query_id |-> 0, epsilon_consumed |-> 2], [forged |-> 1]}
      [] OTHER -> KnownHashes

QueryEventFields == DOMAIN QueryEvent(0, "alice", 0)
PrivacyEventFields == DOMAIN PrivacyEvent(0, 1, 0)

SubEventFieldValues(f) ==
    CASE f = "query_id" -> 0..MaxAppends
      [] f = "user_id" -> {"alice", "mallory"}
      [] f = "original_sql" -> {"SELECT 1", "SELECT 2"}
      [] f = "timestamp" -> 0..MaxClock
      [] f \in {"tables_accessed", "columns_accessed", "columns_protected"}
            -> {<<>>, <<"users">>}
      [] f = "query_type" -> {"UNKNOWN", "SELECT"}
      [] f \in {"is_aggregation", "has_joins", "has_subqueries"} -> BOOLEAN
      [] f = "privacy_method" -> PrivacyMethods
      [] OTHER -> {<<>>, <<1>>, <<2>>}

\* entry.<field> = value, on a retained entry
ATamperField(i, f, v) ==
    /\ ~tampered /\ AuditQuiet
    /\ i \in DOMAIN entries
    /\ v \in EntryFieldValues(f)
    /\ v # entries[i][f]
    /\ entries' = [entries EXCEPT ![i][f] = v]
    /\ tampered' = TRUE
    /\ UNCHANGED <<sideVars, mgrVars, burstVars, drvVars, last_hash, max_entries, auditLock,
                   app, nextId>>

\* entry.query_event.<field> = value
ATamperQueryEvent(i, f, v) ==
    /\ ~tampered /\ AuditQuiet
    /\ i \in DOMAIN entries
    /\ entries[i].query_event # <<>>
    /\ v \in SubEventFieldValues(f)
    /\ v # entries[i].query_event[1][f]
    /\ entries' = [entries EXCEPT ![i].query_event[1][f] = v]
    /\ tampered' = TRUE
    /\ UNCHANGED <<sideVars, mgrVars, burstVars, drvVars, last_hash, max_entries, auditLock,
                   app, nextId>>

\* entry.privacy_event.<field> = value
ATamperPrivacyEvent(i, f, v) ==
    /\ ~tampered /\ AuditQuiet
    /\ i \in DOMAIN entries
    /\ entries[i].privacy_event # <<>>
    /\ v \in SubEventFieldValues(f)
    /\ v # entries[i].privacy_event[1][f]
    /\ entries' = [entries EXCEPT ![i].privacy_event[1][f] = v]
    /\ tampered' = TRUE
    /\ UNCHANGED <<sideVars, mgrVars, burstVars, drvVars, last_hash, max_entries, auditLock,
                   app, nextId>>

NextAudit ==
    \/ \E t \in Appenders, kind \in LogKinds : ABegin(t, kind, "alice")
    \/ \E t \in Appenders : ALock(t)
    \/ \E t \in Appenders : APrevious(t)
    \/ \E t \in Appenders : AHash(t)
    \/ \E t \in Appenders : ALast(t)
    \/ \E t \in Appenders : AAppend(t)
    \/ \E t \in Appenders : ATruncate(t)
    \/ \E i \in 1..MaxAppends, f \in EntryFields :
          \E v \in EntryFieldValues(f) : ATamperField(i, f, v)
    \/ \E i \in 1..MaxAppends, f \in QueryEventFields :
          \E v \in SubEventFieldValues(f) : ATamperQueryEvent(i, f, v)
    \/ \E i \in 1..MaxAppends, f \in PrivacyEventFields :
          \E v \in SubEventFieldValues(f) : ATamperPrivacyEvent(i, f, v)

SpecAudit == InitAudit /\ [][NextAudit]_vars

\* C9: after any appends, by one thread or by several concurrently, with or
\* without entries dropped at max_entries (and no entry changed in place),
\* every retained entry after the first has previous_hash equal to the
\* entry_hash of the entry before it, every retained entry's entry_hash is
\* the hash of its content, and verify_chain_integrity() returns true.
C9_ChainIntact ==
    ~tampered =>
        /\ \A i \in 2..Len(entries) : entries[i].previous_hash = entries[i - 1].entry_hash
        /\ \A i \in DOMAIN entries : entries[i].entry_hash = calculate_hash(entries[i])
        /\ verify_chain_integrity(entries)

\* the oldest entry was dropped, and of the two retained the one constructed
\* later was appended first, by the other thread
C9_Witness ==
    /\ auditLock = NoThread /\ ~tampered
    /\ max_entries = 2 /\ Len(entries) = 2 /\ nextId = 3
    /\ entries[1].entry_id = 2 /\ entries[2].entry_id = 1
    /\ entries[1].previous_hash # NoHash

\* C10: after one field of a retained entry was changed in place,
\* verify_chain_integrity() returns false.
C10_TamperDetected == tampered => ~verify_chain_integrity(entries)

\* three entries are retained and the metadata of the second was changed
C10_Witness ==
    /\ tampered
    /\ Len(entries) = 3
    /\ entries[2].event_type = "BUDGET_CONSUMED"
    /\ entries[2].metadata = [query_id |-> 0, epsilon_consumed |-> 2]
    /\ entries[2].entry_hash = calculate_hash([entries[2] EXCEPT !.metadata =
                                   [query_id |-> 1, epsilon_consumed |-> 1]])

(***************************************************************************)
(* main/performance/rate_limiter.py                                        *)
(*                                                                         *)
(* Time is counted in seconds.  check and record each run under the        *)
(* limiter's Lock and are one step each; check_and_record is a check       *)
(* followed, when allowed, by a record.                                    *)
(***************************************************************************)
\* the window lengths check passes to _check_rate
SecondWindow == 1
MinuteWindow == 60

\* RateLimiter._clean_old_requests
RECURSIVE clean_old_requests(_, _, _)
clean_old_requests(requests, t, window_seconds) ==
    IF requests # <<>> /\ t - Head(requests) > window_seconds
    THEN clean_old_requests(Tail(requests), t, window_seconds)
    ELSE requests

\* RateLimiter._check_rate: the deque after cleaning, and whether the
\* request is within the limit
check_rate(requests, limit, window_seconds, t) ==
    LET cleaned == clean_old_requests(requests, t, window_seconds)
    IN [requests |-> cleaned, allowed |-> ~(Len(cleaned) >= limit)]

\* RateLimiter.check: the three checks in order, each on the deque the
\* previous one left
check(user, t) ==
    LET second == check_rate(global_requests, limits.per_second, SecondWindow, t)
        minute == check_rate(second.requests, limits.per_minute, MinuteWindow, t)
        peruser == check_rate(user_requests[LimiterUser], limits.user_per_minute,
                              MinuteWindow, t)
    IN IF ~second.allowed
       THEN [allowed |-> FALSE, global |-> second.requests, user |-> user_requests]
       ELSE IF ~minute.allowed
       THEN [allowed |-> FALSE, global |-> minute.requests, user |-> user_requests]
       ELSE IF user # ""
       THEN [allowed |-> peruser.allowed, global |-> minute.requests,
             user |-> [user_requests EXCEPT ![LimiterUser] = peruser.requests]]
       ELSE [allowed |-> TRUE, global |-> minute.requests, user |-> user_requests]

InitLimiter ==
    /\ accounts = [u \in Users |-> NoAccount]
    /\ transactions = [u \in Users |-> <<>>]
    /\ now = 0
    /\ BurstIdle
    /\ DriverIdle
    /\ AuditIdle
    /\ ConfigIdle
    /\ PolicyIdle
    /\ KAnonIdle
    /\ SyncIdle
    /\ LoopsIdle
    /\ ScheduleIdle
    /\ BudgetSyncIdle
    /\ ConsumeIdle
    /\ PendingIdle
    /\ CoordIdle
    /\ CacheIdle
    /\ ConfigFileIdle
    /\ rlClock = 0
    /\ limits \in [per_second : 1..MaxLimit, per_minute : 1..MaxLimit + 1,
                   user_per_minute : 1..MaxLimit + 1]
    /\ global_requests = <<>>
    /\ user_requests = [u \in {LimiterUser} |-> <<>>]
    /\ rlStats = [total |-> 0, rejected |-> 0]
    /\ rl = [t \in LimiterThreads |-> IdleCaller]
    /\ rlAccepted = <<>>
    /\ rlOverlapped = FALSE

CallsStarted ==
    rlStats.total + rlStats.rejected
        + Cardinality({t \in LimiterThreads : rl[t].pc = "record"})

\* check_and_record line 186: result = self.check(user_id)
RCheck(t, user) ==
    /\ rl[t].pc = "idle"
    /\ CallsStarted < MaxCalls
    /\ LET r == check(user, rlClock)
       IN /\ global_requests' = r.global
          /\ user_requests' = r.user
          /\ rlStats' = IF r.allowed THEN rlStats
                        ELSE [rlStats EXCEPT !.rejected = @ + 1]
          /\ rl' = [rl EXCEPT ![t] = IF r.allowed THEN [pc |-> "record", user |-> user]
                                     ELSE IdleCaller]
          /\ rlOverlapped' = (rlOverlapped \/
                                (r.allowed /\ \E o \in LimiterThreads \ {t} :
                                                  rl[o].pc = "record"))
    /\ UNCHANGED <<pipelineVars, cfgVars, ka, pol, sync, loops, mlast, bud, cons, pend, coord, qc, cm, rlClock, limits, rlAccepted>>

\* check_and_record lines 187-189: self.record(user_id)
RRecord(t) ==
    /\ rl[t].pc = "record"
    /\ global_requests' = Append(global_requests, rlClock)
    /\ user_requests' = IF rl[t].user # ""
                        THEN [user_requests EXCEPT ![LimiterUser] = Append(@, rlClock)]
                        ELSE user_requests
    /\ rlStats' = [rlStats EXCEPT !.total = @ + 1]
    /\ rlAccepted' = Append(rlAccepted, rlClock)
    /\ rl' = [rl EXCEPT ![t] = IdleCaller]
    /\ UNCHANGED <<pipelineVars, cfgVars, ka, pol, sync, loops, mlast, bud, cons, pend, coord, qc, cm, rlClock, limits, rlOverlapped>>

RTick ==
    /\ rlClock < MaxRlClock
    /\ rlClock' = rlClock + 1
    /\ UNCHANGED <<pipelineVars, cfgVars, ka, pol, sync, loops, mlast, bud, cons, pend, coord, qc, cm, limits, global_requests, user_requests, rlStats, rl,
                   rlAccepted, rlOverlapped>>

NextLimiter ==
    \/ \E t \in LimiterThreads, user \in {"", LimiterUser} : RCheck(t, user)
    \/ \E t \in LimiterThreads : RRecord(t)
    \/ RTick

SpecLimiter == InitLimiter /\ [][NextLimiter]_vars

\* the accepted requests recorded in the window of the given length that
\* starts at time from
AcceptedIn(from, length) ==
    Cardinality({i \in DOMAIN rlAccepted :
                    rlAccepted[i] >= from /\ rlAccepted[i] < from + length})

\* C11: when the calls of check_and_record are made one after another, the
\* number of accepted requests inside any 60-second window never exceeds
\* requests_per_minute.
C11_MinuteLimit ==
    ~rlOverlapped =>
        \A from \in 0..MaxRlClock : AcceptedIn(from, MinuteWindow) <= limits.per_minute

\* C17: check_and_record is atomic: in every interleaving of concurrent
\* calls the number of requests accepted inside any 1-second window never
\* exceeds requests_per_second.
C17_SecondLimitConcurrent ==
    \A from \in 0..MaxRlClock : AcceptedIn(from, SecondWindow) <= limits.per_second

(***************************************************************************)
(* PolicyEngine.evaluate beside ConfigManager.reload and update_config     *)
(*                                                                         *)
(* Every ConfigManager.get is one step under the manager's Lock; evaluate  *)
(* makes one get per configuration key it needs, and reads the engine's    *)
(* own copy of the sensitive columns.  The queries have one table, so      *)
(* _get_highest_classification makes one get.                              *)
(***************************************************************************)
\* the configuration installed after the reload
NewConfig ==
    [sensitive_columns |-> {"email"},
     default_epsilon |-> 3,
     roles |-> [intern |-> RoleConfig(2, {}, {}, {}),
                clerk |-> RoleConfig(10, {"orders"}, {}, {})],
     column_patterns |-> << [matches |-> {"id"},
                             privacy_method |-> "DeID", params_epsilon |-> <<>>] >>,
     table_policies |-> [users |-> "internal"],
     classification_rules |->
        [public |-> 5, internal |-> 4, confidential |-> 2, restricted |-> 1]]

ConfigVersions == <<BaseConfig, NewConfig>>

\* the configuration an evaluate call has seen: each key from the version
\* that was installed when the call read it
SeenConfig(seen) ==
    [sensitive_columns |-> ConfigVersions[seen.sensitive_columns].sensitive_columns,
     default_epsilon |-> ConfigVersions[seen.default_epsilon].default_epsilon,
     roles |-> ConfigVersions[seen.roles].roles,
     column_patterns |-> ConfigVersions[seen.column_patterns].column_patterns,
     table_policies |-> ConfigVersions[seen.table_policies].table_policies,
     classification_rules |->
        ConfigVersions[seen.classification_rules].classification_rules]

SeenDecision(e) ==
    evaluate(SeenConfig(e.seen), EngineSensitiveColumns(SeenConfig(e.seen)),
             Queries[e.query], e.role)

SingleTableQueries == {q \in QueryNames : Len(Queries[q].tables) <= 1}

InitReload ==
    /\ accounts = [u \in Users |-> NoAccount]
    /\ transactions = [u \in Users |-> <<>>]
    /\ now = 0
    /\ BurstIdle
    /\ DriverIdle
    /\ AuditIdle
    /\ LimiterIdle
    /\ PolicyIdle
    /\ KAnonIdle
    /\ ConfigIdle
    /\ SyncIdle
    /\ LoopsIdle
    /\ ScheduleIdle
    /\ BudgetSyncIdle
    /\ ConsumeIdle
    /\ PendingIdle
    /\ CoordIdle
    /\ CacheIdle
    /\ ConfigFileIdle

Decide(t, e) == [ev EXCEPT ![t] = [e EXCEPT !.pc = "done", !.decided = <<SeenDecision(e)>>]]

\* evaluate lines 71-84: the validity test
EvStart(t, q, role) ==
    /\ ev[t].pc \in {"idle", "done"}
    /\ evCount < MaxEvals
    /\ evCount' = evCount + 1
    /\ LET e == [IdleEval EXCEPT !.query = q, !.role = role]
       IN ev' = IF ~Queries[q].is_valid THEN Decide(t, e)
                ELSE [ev EXCEPT ![t] = [e EXCEPT !.pc = IF role # NoRole THEN "roles"
                                                        ELSE "tables"]]
    /\ UNCHANGED <<pipelineVars, rlVars, ka, pol, sync, loops, mlast, bud, cons, pend, coord, qc, cm, cfgVersion, engine_sensitive, reloader>>

\* evaluate lines 83-89: get_role_config and the table access check
EvRoles(t) ==
    /\ ev[t].pc = "roles"
    /\ LET e == [ev[t] EXCEPT !.seen.roles = cfgVersion]
           rc == get_role_config(SeenConfig(e.seen), e.role)
       IN ev' = IF rc # <<>> /\ check_table_access(Queries[e.query], rc[1]) # <<>>
                THEN Decide(t, e)
                ELSE [ev EXCEPT ![t] = [e EXCEPT !.pc = "tables"]]
    /\ UNCHANGED <<pipelineVars, rlVars, ka, pol, sync, loops, mlast, bud, cons, pend, coord, qc, cm, cfgVersion, engine_sensitive, evCount, reloader>>

\* evaluate line 92: _get_highest_classification reads the table policy
EvTables(t) ==
    /\ ev[t].pc = "tables"
    /\ ev' = [ev EXCEPT ![t].seen.table_policies = cfgVersion, ![t].pc = "patterns"]
    /\ UNCHANGED <<pipelineVars, rlVars, ka, pol, sync, loops, mlast, bud, cons, pend, coord, qc, cm, cfgVersion, engine_sensitive, evCount, reloader>>

\* evaluate lines 95-99: get_column_patterns and the pattern match
EvPatterns(t) ==
    /\ ev[t].pc = "patterns"
    /\ LET e == [ev[t] EXCEPT !.seen.column_patterns = cfgVersion]
           ar == Queries[e.query]
       IN ev' = IF check_column_patterns(SeenConfig(e.seen), ar.select_columns) # <<>>
                THEN Decide(t, e)
                ELSE [ev EXCEPT ![t] = [e EXCEPT !.pc = IF ar.is_aggregate_query
                                                        THEN "epsilon" ELSE "sensitive"]]
    /\ UNCHANGED <<pipelineVars, rlVars, ka, pol, sync, loops, mlast, bud, cons, pend, coord, qc, cm, cfgVersion, engine_sensitive, evCount, reloader>>

\* _create_dp_decision line 203: get_default_epsilon
EvEpsilon(t) ==
    /\ ev[t].pc = "epsilon"
    /\ ev' = [ev EXCEPT ![t].seen.default_epsilon = cfgVersion, ![t].pc = "rules"]
    /\ UNCHANGED <<pipelineVars, rlVars, ka, pol, sync, loops, mlast, bud, cons, pend, coord, qc, cm, cfgVersion, engine_sensitive, evCount, reloader>>

\* _create_dp_decision lines 212-229: get_classification_rules
EvRules(t) ==
    /\ ev[t].pc = "rules"
    /\ ev' = Decide(t, [ev[t] EXCEPT !.seen.classification_rules = cfgVersion])
    /\ UNCHANGED <<pipelineVars, rlVars, ka, pol, sync, loops, mlast, bud, cons, pend, coord, qc, cm, cfgVersion, engine_sensitive, evCount, reloader>>

\* evaluate lines 108-120: _has_sensitive_columns reads self.sensitive_columns
EvSensitive(t) ==
    /\ ev[t].pc = "sensitive"
    /\ ev' = Decide(t, [ev[t] EXCEPT !.seen.sensitive_columns = engine_sensitive])
    /\ UNCHANGED <<pipelineVars, rlVars, ka, pol, sync, loops, mlast, bud, cons, pend, coord, qc, cm, cfgVersion, engine_sensitive, evCount, reloader>>

\* reload lines 212-213: _load_config installs the new configuration
ReloadLoad ==
    /\ reloader = "idle"
    /\ cfgVersion = 1
    /\ cfgVersion' = 2
    /\ reloader' = "callbacks"
    /\ UNCHANGED <<pipelineVars, rlVars, ka, pol, sync, loops, mlast, bud, cons, pend, coord, qc, cm, engine_sensitive, ev, evCount>>

\* reload lines 215-220: the engine's _on_config_reload callback
ReloadCallbacks ==
    /\ reloader = "callbacks"
    /\ engine_sensitive' = cfgVersion
    /\ reloader' = "done"
    /\ UNCHANGED <<pipelineVars, rlVars, ka, pol, sync, loops, mlast, bud, cons, pend, coord, qc, cm, cfgVersion, ev, evCount>>

\* update_config: the new values are installed; no callback runs
UpdateConfig ==
    /\ reloader = "idle"
    /\ cfgVersion = 1
    /\ cfgVersion' = 2
    /\ reloader' = "done"
    /\ UNCHANGED <<pipelineVars, rlVars, ka, pol, sync, loops, mlast, bud, cons, pend, coord, qc, cm, engine_sensitive, ev, evCount>>

NextReload ==
    \/ \E t \in EvalThreads, q \in SingleTableQueries, role \in {NoRole, "intern", "clerk"} :
          EvStart(t, q, role)
    \/ \E t \in EvalThreads : EvRoles(t)
    \/ \E t \in EvalThreads : EvTables(t)
    \/ \E t \in EvalThreads : EvPatterns(t)
    \/ \E t \in EvalThreads : EvEpsilon(t)
    \/ \E t \in EvalThreads : EvRules(t)
    \/ \E t \in EvalThreads : EvSensitive(t)
    \/ ReloadLoad
    \/ ReloadCallbacks
    \/ UpdateConfig

SpecReload == InitReload /\ [][NextReload]_vars

\* the decision evaluate gives when every key comes from one version
DecisionUnder(v, e) ==
    evaluate(ConfigVersions[v], EngineSensitiveColumns(ConfigVersions[v]),
             Queries[e.query], e.role)

\* C12: an evaluate call that runs beside reload or update_config returns
\* the decision of the old configuration or the decision of the new one,
\* never one that mixes keys of the two.
C12_NoMixture ==
    \A t \in EvalThreads :
        ev[t].pc = "done" =>
            \E v \in DOMAIN ConfigVersions : ev[t].decided[1] = DecisionUnder(v, ev[t])

(***************************************************************************)
(* main/privacy/deid/methods.py: KAnonymizer                               *)
(*                                                                         *)
(* A row is a function from the columns it has to their values; a row may  *)
(* lack a quasi-identifier.                                                *)
(***************************************************************************)
KColumns == {"age", "zip"}
KValues == {"30", "31"}
KRows == UNION {[cols -> KValues] : cols \in SUBSET KColumns}
SUPPRESSED == "*SUPPRESSED*"
NoneValue == "None"

\* the quasi-identifier lists of the runs
KQuasiIdentifiers == {<<>>, <<"age">>, <<"zip", "age">>}

\* the generalization rule of the runs: ages are replaced by their decade
GeneralizeAge(v) == "30-39"

RECURSIVE SeqsUpTo(_, _)
SeqsUpTo(S, n) ==
    IF n = 0 THEN {<<>>}
    ELSE LET shorter == SeqsUpTo(S, n - 1)
         IN shorter \cup {Append(q, x) : q \in {r \in shorter : Len(r) = n - 1}, x \in S}

\* KAnonymizer._get_equivalence_key
get_equivalence_key(row, qis) ==
    [i \in DOMAIN qis |-> IF qis[i] \in DOMAIN row THEN row[qis[i]] ELSE NoneValue]

\* anonymize lines 334-339: the generalization rules are applied
generalized(row, qis, generalize) ==
    [c \in DOMAIN row |->
        IF generalize /\ c = "age" /\ c \in SeqRange(qis)
        THEN GeneralizeAge(row[c]) ELSE row[c]]

\* KAnonymizer._compute_equivalence_classes: the rows of the class of a key
equivalence_class(data, qis, key) ==
    {i \in DOMAIN data : get_equivalence_key(data[i], qis) = key}

\* anonymize lines 345-348: the class is smaller than k
is_small_class_below_k_minus_1(size, k) == size < k - 1

is_small_class(size, k) == size < k

\* anonymize lines 351-356: the quasi-identifiers the row has are suppressed
suppressed(row, qis) ==
    [c \in DOMAIN row |-> IF c \in SeqRange(qis) THEN SUPPRESSED ELSE row[c]]

\* KAnonymizer.anonymize
anonymize(k, data, qis, generalize) ==
    IF data = <<>> THEN data
    ELSE LET result == [i \in DOMAIN data |-> generalized(data[i], qis, generalize)]
         IN [i \in DOMAIN result |->
                LET key == get_equivalence_key(result[i], qis)
                IN IF is_small_class(Cardinality(equivalence_class(result, qis, key)), k)
                   THEN suppressed(result[i], qis)
                   ELSE result[i]]

InitKAnon ==
    /\ accounts = [u \in Users |-> NoAccount]
    /\ transactions = [u \in Users |-> <<>>]
    /\ now = 0
    /\ BurstIdle
    /\ DriverIdle
    /\ AuditIdle
    /\ LimiterIdle
    /\ ConfigIdle
    /\ PolicyIdle
    /\ SyncIdle
    /\ LoopsIdle
    /\ ScheduleIdle
    /\ BudgetSyncIdle
    /\ ConsumeIdle
    /\ PendingIdle
    /\ CoordIdle
    /\ CacheIdle
    /\ ConfigFileIdle
    /\ ka \in [pc : {"called"}, k : 1..MaxK, data : SeqsUpTo(KRows, MaxRows),
               quasi_identifiers : KQuasiIdentifiers, generalize : BOOLEAN,
               result : {<<>>}, passes : {FALSE}]

KAnonymize ==
    /\ ka.pc = "called"
    /\ ka' = [ka EXCEPT !.pc = "returned",
                        !.result = anonymize(ka.k, ka.data, ka.quasi_identifiers,
                                             ka.generalize)]
    /\ UNCHANGED <<pipelineVars, rlVars, cfgVars, pol, sync, loops, mlast, bud, cons, pend, coord, qc, cm>>

\* KAnonymizer.check_k_anonymity
check_k_anonymity(k, data, qis) ==
    \A i \in DOMAIN data :
        Cardinality(equivalence_class(data, qis, get_equivalence_key(data[i], qis))) >= k

\* the same anonymizer checks the data it returned
KCheck ==
    /\ ka.pc = "returned"
    /\ ka' = [ka EXCEPT !.pc = "checked",
                        !.passes = check_k_anonymity(ka.k, ka.result, ka.quasi_identifiers)]
    /\ UNCHANGED <<pipelineVars, rlVars, cfgVars, pol, sync, loops, mlast, bud, cons, pend, coord, qc, cm>>

NextKAnon ==
    \/ KAnonymize
    \/ KCheck

SpecKAnon == InitKAnon /\ [][NextKAnon]_vars

\* the other rows of the result with the same quasi-identifier values
SameQuasiIdentifiers(i) ==
    {j \in DOMAIN ka.result \ {i} :
        get_equivalence_key(ka.result[j], ka.quasi_identifiers)
            = get_equivalence_key(ka.result[i], ka.quasi_identifiers)}

FullySuppressed(row) ==
    \A c \in DOMAIN row : c \in SeqRange(ka.quasi_identifiers) => row[c] = SUPPRESSED

C29_OutputPassesCheck ==
    ka.pc = "checked" => ka.passes

(***************************************************************************)
(* PolicyEngine.evaluate on its own: the decision for every analysis       *)
(* result, role and configuration of the runs                              *)
(***************************************************************************)
PolicyTables == {<<"users">>, <<"salaries">>, <<"orders", "users">>}
PolicyColumns == {<<>>, <<"id">>, <<"Name">>, <<"age">>, <<"CARD_NO">>, <<"id", "age">>}
PolicyRoles == {NoRole, "intern", "clerk", "guest"}

InitPolicy ==
    /\ accounts = [u \in Users |-> NoAccount]
    /\ transactions = [u \in Users |-> <<>>]
    /\ now = 0
    /\ BurstIdle
    /\ DriverIdle
    /\ AuditIdle
    /\ LimiterIdle
    /\ ConfigIdle
    /\ KAnonIdle
    /\ SyncIdle
    /\ LoopsIdle
    /\ ScheduleIdle
    /\ BudgetSyncIdle
    /\ ConsumeIdle
    /\ PendingIdle
    /\ CoordIdle
    /\ CacheIdle
    /\ ConfigFileIdle
    /\ pol \in [pc : {"called"}, valid : BOOLEAN, tables : PolicyTables,
               columns : PolicyColumns, aggregate : BOOLEAN, role : PolicyRoles,
               version : DOMAIN ConfigVersions, decision : {<<>>}]

PolicyAnalysis == Analysis(pol.valid, pol.tables, pol.columns, pol.aggregate, <<>>)

PEvaluate ==
    /\ pol.pc = "called"
    /\ pol' = [pol EXCEPT
                !.pc = "returned",
                !.decision = <<evaluate(ConfigVersions[pol.version],
                                        EngineSensitiveColumns(ConfigVersions[pol.version]),
                                        PolicyAnalysis, pol.role)>>]
    /\ UNCHANGED <<pipelineVars, rlVars, cfgVars, ka, sync, loops, mlast, bud, cons, pend, coord, qc, cm>>

NextPolicy == PEvaluate

SpecPolicy == InitPolicy /\ [][NextPolicy]_vars

\* the action the ordered list of C14 gives
ListedAction(cfg, ar, role) ==
    LET rc == IF role # NoRole /\ role \in DOMAIN cfg.roles THEN <<cfg.roles[role]>>
              ELSE <<>>
        queried == SeqRange(ar.tables)
        selected == {Lower(c) : c \in SeqRange(ar.select_columns)}
        matching == {i \in DOMAIN cfg.column_patterns :
                        SeqRange(ar.select_columns) \cap cfg.column_patterns[i].matches # {}}
        first == CHOOSE i \in matching :
                    \A j \in matching :
                        \/ i = j
                        \/ \E c \in DOMAIN ar.select_columns :
                              /\ ar.select_columns[c] \in cfg.column_patterns[i].matches
                              /\ \A d \in 1..c :
                                    ar.select_columns[d] \notin cfg.column_patterns[j].matches
                                        \/ (d = c /\ i < j)
    IN IF ~ar.is_valid THEN "REJECT"
       ELSE IF rc # <<>> /\ queried \cap rc[1].denied_tables # {} THEN "REJECT"
       ELSE IF rc # <<>> /\ rc[1].allowed_tables # {}
                         /\ queried \ rc[1].allowed_tables # {} THEN "REJECT"
       ELSE IF matching # {} THEN cfg.column_patterns[first].privacy_method
       ELSE IF ar.is_aggregate_query THEN "DP"
       ELSE IF selected \cap EngineSensitiveColumns(cfg) # {} THEN "DeID"
       ELSE IF rc # <<>> /\ selected \cap {Lower(c) : c \in rc[1].denied_columns} # {}
            THEN "DeID"
       ELSE "PASS"

\* C14: evaluate returns the first matching outcome of the ordered list:
\* invalid -> REJECT; denied table -> REJECT; table outside a non-empty
\* allowed list -> REJECT; matching column pattern -> its action; aggregate
\* -> DP; a selected column that is sensitive or in the role's
\* denied_columns -> DeID; otherwise PASS.
C14_DecisionOrder ==
    pol.pc = "returned" =>
        pol.decision[1].action = ListedAction(ConfigVersions[pol.version], PolicyAnalysis,
                                             pol.role)

(***************************************************************************)
(* DistributedBudgetSync: the per-user lock table of one instance, used by *)
(* several threads of that instance; time in seconds                       *)
(***************************************************************************)
NumLocker == 2          \* threads calling acquire_lock / release_lock
MaxSyncClock == 2       \* seconds of the run
MaxLockTimeout == 1     \* largest lock_timeout_seconds and largest timeout argument
MaxLockCalls == 2       \* acquire_lock and release_lock calls of the run

Lockers == 1..NumLocker
LockUsers == {"alice", "bob"}
InstanceId == "node1"
NoLock == <<>>
NoTimeout == <<>>

LockerStart == [pc |-> "idle", user |-> "alice", start |-> 0, timeout |-> 0, tested |-> 0]
NoCall == [op |-> "none", result |-> FALSE, start |-> 0, timeout |-> 0, tested |-> 0,
           at |-> 0, before |-> NoLock, after |-> NoLock]

InitSync ==
    /\ accounts = [u \in Users |-> NoAccount]
    /\ transactions = [u \in Users |-> <<>>]
    /\ now = 0
    /\ BurstIdle
    /\ DriverIdle
    /\ AuditIdle
    /\ LimiterIdle
    /\ ConfigIdle
    /\ KAnonIdle
    /\ PolicyIdle
    /\ LoopsIdle
    /\ ScheduleIdle
    /\ BudgetSyncIdle
    /\ ConsumeIdle
    /\ PendingIdle
    /\ CoordIdle
    /\ CacheIdle
    /\ ConfigFileIdle
    /\ \E lt \in 1..MaxLockTimeout :
          sync = [clock |-> 0, lock_timeout |-> lt,
                  locks |-> [u \in LockUsers |-> NoLock],
                  th |-> [t \in Lockers |-> LockerStart], calls |-> 0, last |-> NoCall]

\* elapsed > self.lock_timeout, the lock taken at acquired_at and read at t
lock_expired_at_any_age(acquired_at, t, lock_timeout) == t - acquired_at >= 0

lock_expired(acquired_at, t, lock_timeout) == t - acquired_at > lock_timeout

\* timeout = timeout or self.lock_timeout: None and 0 both give lock_timeout
effective_timeout(timeout, lock_timeout) ==
    IF timeout = NoTimeout \/ timeout[1] = 0 THEN lock_timeout ELSE timeout[1]

\* the call of thread t returns: what it returned and what it saw and left
LockReturned(t, op, result, before, after) ==
    [op |-> op, result |-> result, start |-> sync.th[t].start,
     timeout |-> sync.th[t].timeout, tested |-> sync.th[t].tested, at |-> sync.clock,
     before |-> before, after |-> after]

\* acquire_lock entered: start_time = time.time()
SAcquireCall(t, user, timeout) ==
    /\ sync.th[t].pc = "idle"
    /\ sync.calls < MaxLockCalls
    /\ sync' = [sync EXCEPT !.calls = sync.calls + 1, !.th[t] =
                  [LockerStart EXCEPT !.pc = "test", !.user = user,
                                      !.start = sync.clock,
                                      !.timeout = effective_timeout(timeout, sync.lock_timeout)]]
    /\ UNCHANGED <<pipelineVars, rlVars, cfgVars, ka, pol, loops, mlast, bud, cons, pend, coord, qc, cm>>

\* while time.time() - start_time < timeout: ... return False
SAcquireTest(t) ==
    /\ sync.th[t].pc = "test"
    /\ IF sync.clock - sync.th[t].start < sync.th[t].timeout
       THEN sync' = [sync EXCEPT !.th[t].pc = "body", !.th[t].tested = sync.clock]
       ELSE sync' = [sync EXCEPT
                       !.th[t] = LockerStart,
                       !.last = [LockReturned(t, "acquire", FALSE, sync.locks[sync.th[t].user],
                                          sync.locks[sync.th[t].user])
                                   EXCEPT !.tested = sync.clock]]
    /\ UNCHANGED <<pipelineVars, rlVars, cfgVars, ka, pol, loops, mlast, bud, cons, pend, coord, qc, cm>>

\* the loop body under self._lock, then time.sleep(0.01)
SAcquireBody(t) ==
    /\ sync.th[t].pc = "body"
    /\ LET user == sync.th[t].user
           held == sync.locks[user]
           mine == <<[holder |-> InstanceId, acquired_at |-> sync.clock]>>
       IN IF held = NoLock
             \/ lock_expired(held[1].acquired_at, sync.clock, sync.lock_timeout)
          THEN sync' = [sync EXCEPT !.locks[user] = mine,
                                    !.th[t] = LockerStart,
                                    !.last = LockReturned(t, "acquire", TRUE, held, mine)]
          ELSE sync' = [sync EXCEPT !.th[t].pc = "test"]
    /\ UNCHANGED <<pipelineVars, rlVars, cfgVars, ka, pol, loops, mlast, bud, cons, pend, coord, qc, cm>>

\* release_lock
SReleaseLock(t, user) ==
    /\ sync.th[t].pc = "idle"
    /\ sync.calls < MaxLockCalls
    /\ LET held == sync.locks[user]
           freed == held # NoLock /\ held[1].holder = InstanceId
           left == IF freed THEN NoLock ELSE held
       IN sync' = [sync EXCEPT
                     !.calls = sync.calls + 1,
                     !.locks[user] = left,
                     !.last = LockReturned(t, "release", freed, held, left)]
    /\ UNCHANGED <<pipelineVars, rlVars, cfgVars, ka, pol, loops, mlast, bud, cons, pend, coord, qc, cm>>

STick ==
    /\ sync.clock < MaxSyncClock
    /\ sync' = [sync EXCEPT !.clock = sync.clock + 1]
    /\ UNCHANGED <<pipelineVars, rlVars, cfgVars, ka, pol, loops, mlast, bud, cons, pend, coord, qc, cm>>

NextSync ==
    \/ \E t \in Lockers, user \in LockUsers,
          timeout \in {NoTimeout} \cup {<<n>> : n \in 0..MaxLockTimeout} :
            SAcquireCall(t, user, timeout)
    \/ \E t \in Lockers : SAcquireTest(t)
    \/ \E t \in Lockers : SAcquireBody(t)
    \/ \E t \in Lockers, user \in LockUsers : SReleaseLock(t, user)
    \/ STick

SpecSync == InitSync /\ [][NextSync]_vars

C16_UpliftContinues ==
    [][\A t \in DriverThreads :
          ( /\ drv[t].pc = "uplift"
            /\ drv'[t].pc # "uplift"
            /\ Queries[drv[t].query].is_valid
            /\ Queries[drv[t].query].joins # <<>> ) =>
                drv'[t].pc = "execute"]_vars

(***************************************************************************)
(* The background loops: DistributedBudgetSync.start_sync / stop_sync and  *)
(* DistributedCoordinator.start_health_check / stop_health_check.  Each    *)
(* component has a stop flag, a thread field and the worker threads it has *)
(* started                                                                 *)
(***************************************************************************)
MaxWorkers == 2         \* worker threads a component starts in a run
MaxLoopCalls == 3       \* start and stop calls per component

Components == {"sync", "health_check"}
NoWorker == 0

Worker(pc) == [pc |-> pc, told |-> FALSE, resumed |-> FALSE]

InitLoops ==
    /\ accounts = [u \in Users |-> NoAccount]
    /\ transactions = [u \in Users |-> <<>>]
    /\ now = 0
    /\ BurstIdle
    /\ DriverIdle
    /\ AuditIdle
    /\ LimiterIdle
    /\ ConfigIdle
    /\ KAnonIdle
    /\ PolicyIdle
    /\ SyncIdle
    /\ ScheduleIdle
    /\ BudgetSyncIdle
    /\ ConsumeIdle
    /\ PendingIdle
    /\ CoordIdle
    /\ CacheIdle
    /\ ConfigFileIdle
    /\ loops = [c \in Components |->
                  [stop |-> FALSE, thread |-> NoWorker, workers |-> <<>>,
                   caller |-> "idle", calls |-> 0]]

\* start_sync / start_health_check: nothing when a thread is recorded,
\* otherwise the flag is cleared and a new worker is started
LStart(c) ==
    /\ loops[c].caller = "idle"
    /\ loops[c].calls < MaxLoopCalls
    /\ Len(loops[c].workers) < MaxWorkers
    /\ IF loops[c].thread # NoWorker
       THEN loops' = [loops EXCEPT ![c].calls = loops[c].calls + 1]
       ELSE loops' = [loops EXCEPT
                        ![c].calls = loops[c].calls + 1,
                        ![c].stop = FALSE,
                        ![c].workers = Append(loops[c].workers, Worker("test")),
                        ![c].thread = Len(loops[c].workers) + 1]
    /\ UNCHANGED <<pipelineVars, rlVars, cfgVars, ka, pol, sync, mlast, bud, cons, pend, coord, qc, cm>>

\* stop_sync / stop_health_check, first half: the flag is set
LStopSignal(c) ==
    /\ loops[c].caller = "idle"
    /\ loops[c].calls < MaxLoopCalls
    /\ LET w == loops[c].thread
       IN loops' = [loops EXCEPT
                      ![c].calls = loops[c].calls + 1,
                      ![c].stop = TRUE,
                      ![c].caller = IF w # NoWorker THEN "join" ELSE "idle",
                      ![c].workers = IF w # NoWorker /\ loops[c].workers[w].pc # "exited"
                                     THEN [loops[c].workers EXCEPT ![w].told = TRUE]
                                     ELSE loops[c].workers]
    /\ UNCHANGED <<pipelineVars, rlVars, cfgVars, ka, pol, sync, mlast, bud, cons, pend, coord, qc, cm>>

\* second half: join(timeout=2) returns, because the worker has exited or,
\* timed_out, because the worker is still in its callbacks or its sleep
\* after two seconds; the thread field is cleared either way
LStopJoin(c, timed_out) ==
    /\ loops[c].caller = "join"
    /\ LET w == loops[c].thread
       IN IF timed_out THEN loops[c].workers[w].pc = "work"
                       ELSE loops[c].workers[w].pc = "exited"
    /\ loops' = [loops EXCEPT ![c].caller = "idle", ![c].thread = NoWorker]
    /\ UNCHANGED <<pipelineVars, rlVars, cfgVars, ka, pol, sync, mlast, bud, cons, pend, coord, qc, cm>>

\* sync_loop / check_loop: while not self._stop...
LTest(c, w) ==
    /\ w \in DOMAIN loops[c].workers
    /\ loops[c].workers[w].pc = "test"
    /\ IF loops[c].stop
       THEN loops' = [loops EXCEPT ![c].workers[w].pc = "exited"]
       ELSE loops' = [loops EXCEPT ![c].workers[w].pc = "work",
                                   ![c].workers[w].resumed = loops[c].workers[w].told]
    /\ UNCHANGED <<pipelineVars, rlVars, cfgVars, ka, pol, sync, mlast, bud, cons, pend, coord, qc, cm>>

\* the loop body: the callbacks or the health check, then time.sleep
LWork(c, w) ==
    /\ w \in DOMAIN loops[c].workers
    /\ loops[c].workers[w].pc = "work"
    /\ loops' = [loops EXCEPT ![c].workers[w].pc = "test"]
    /\ UNCHANGED <<pipelineVars, rlVars, cfgVars, ka, pol, sync, mlast, bud, cons, pend, coord, qc, cm>>

NextLoops ==
    \/ \E c \in Components : LStart(c)
    \/ \E c \in Components : LStopSignal(c)
    \/ \E c \in Components, timed_out \in BOOLEAN : LStopJoin(c, timed_out)
    \/ \E c \in Components, w \in 1..MaxWorkers : LTest(c, w)
    \/ \E c \in Components, w \in 1..MaxWorkers : LWork(c, w)

SpecLoops == InitLoops /\ [][NextLoops]_vars

\* the workers of component c that go round their loop
Running(c) ==
    {w \in DOMAIN loops[c].workers :
        /\ loops[c].workers[w].pc # "exited"
        /\ ~loops[c].workers[w].told \/ loops[c].workers[w].resumed}

\* C18: a worker that was told to stop never passes its loop test again, so
\* each component has at most one worker going round its loop, also when
\* start follows a stop whose join timed out.
C18_StoppedWorkerStays ==
    \A c \in DOMAIN loops :
        /\ \A w \in DOMAIN loops[c].workers : ~loops[c].workers[w].resumed
        /\ Cardinality(Running(c)) <= 1

(***************************************************************************)
(* The manager under a clock that advances by days, weeks and months: the  *)
(* calls that run _check_and_reset_if_needed, one at a time; mlast holds   *)
(* the call that has just returned and the account it found, until the     *)
(* clock moves on                                                          *)
(***************************************************************************)
MaxSchedClock == 31     \* the clock of these runs stops at MaxSchedClock days
MaxSchedTotal == 3      \* the account's total_budget is drawn from 1..MaxSchedTotal

SchedUser == "alice"
AdvanceDays == {1, 6, 23}
SchedEps == 1..MaxEps

\* everything but the manager's own state and mlast
besideManager == <<burstVars, drvVars, auditVars, rlVars, cfgVars, ka, pol, sync, loops, bud, cons, pend, coord, qc, cm>>

NoManagerCall == [op |-> "none", eps |-> 0, ok |-> TRUE, before |-> NewAccount, txs |-> <<>>]

\* the manager after set_budget(SchedUser, total) and
\* set_reset_schedule(SchedUser, ResetSchedule(f)) on a new account
InitSchedule ==
    /\ BurstIdle
    /\ DriverIdle
    /\ AuditIdle
    /\ LimiterIdle
    /\ ConfigIdle
    /\ KAnonIdle
    /\ PolicyIdle
    /\ SyncIdle
    /\ LoopsIdle
    /\ BudgetSyncIdle
    /\ ConsumeIdle
    /\ PendingIdle
    /\ CoordIdle
    /\ CacheIdle
    /\ ConfigFileIdle
    /\ \E total \in 1..MaxSchedTotal, f \in Frequencies :
          accounts = [u \in Users |->
                        IF u = SchedUser
                        THEN [NewAccount EXCEPT !.total_budget = total, !.frequency = f]
                        ELSE NoAccount]
    /\ transactions = [u \in Users |-> <<>>]
    /\ now = 0
    /\ mlast = NoManagerCall

\* what a call leaves in mlast
CallRecord(op, eps, ok) ==
    [op |-> op, eps |-> eps, ok |-> ok,
     before |-> accounts[SchedUser], txs |-> transactions[SchedUser]]

SCheckBudget(eps) ==
    /\ accounts' = Observe(accounts, SchedUser, now)
    /\ mlast' = CallRecord("check_budget", 0,
                           check_budget(accounts, SchedUser, eps, now).allowed)
    /\ UNCHANGED <<transactions, now, besideManager>>

SConsumeBudget(eps) ==
    /\ Len(transactions[SchedUser]) < MaxTx
    /\ accounts' = consume_accounts(accounts, SchedUser, eps, now)
    /\ transactions' = consume_transactions(accounts, transactions, SchedUser, eps, now)
    /\ mlast' = CallRecord("consume_budget", eps,
                           consume_allowed(accounts, SchedUser, eps, now))
    /\ UNCHANGED <<now, besideManager>>

SGetRemainingBudget ==
    /\ accounts' = Observe(accounts, SchedUser, now)
    /\ mlast' = CallRecord("get_remaining_budget", 0, TRUE)
    /\ UNCHANGED <<transactions, now, besideManager>>

SGetBudgetStatus ==
    /\ accounts' = Observe(accounts, SchedUser, now)
    /\ mlast' = CallRecord("get_budget_status", 0, TRUE)
    /\ UNCHANGED <<transactions, now, besideManager>>

SAdvance(days) ==
    /\ now + days <= MaxSchedClock
    /\ now' = now + days
    /\ mlast' = NoManagerCall
    /\ UNCHANGED <<accounts, transactions, besideManager>>

NextSchedule ==
    \/ \E eps \in SchedEps : SCheckBudget(eps)
    \/ \E eps \in SchedEps : SConsumeBudget(eps)
    \/ SGetRemainingBudget
    \/ SGetBudgetStatus
    \/ \E days \in AdvanceDays : SAdvance(days)

SpecSchedule == InitSchedule /\ [][NextSchedule]_vars

\* the scheduled reset is due for the account the last call found
ResetDue ==
    LET b == mlast.before
    IN /\ b.frequency # "never"
       /\ b.last_reset # NoTime
       /\ \/ b.frequency = "daily" /\ now - b.last_reset >= 1
          \/ b.frequency = "weekly" /\ now - b.last_reset >= 7
          \/ b.frequency = "monthly" /\ now - b.last_reset >= 30

\* consumed_budget as the last call found it once reset-if-due had run
ConsumedAfterReset == IF ResetDue THEN 0 ELSE mlast.before.consumed_budget

\* C19: consume_budget called with an epsilon larger than the remaining
\* budget, taken after reset-if-due has run, returns false, adds nothing to
\* consumed_budget and leaves the transaction list as it was.
C19_FailedConsumeNoEffect ==
    ( /\ mlast.op = "consume_budget"
      /\ mlast.eps > Max(0, mlast.before.total_budget - ConsumedAfterReset) ) =>
        /\ ~mlast.ok
        /\ accounts[SchedUser].consumed_budget = ConsumedAfterReset
        /\ transactions[SchedUser] = mlast.txs

\* a consume_budget that asked for more than what was left of a partly
\* spent budget
C19_Witness ==
    /\ mlast.op = "consume_budget"
    /\ ~mlast.ok
    /\ mlast.before.consumed_budget > 0
    /\ accounts[SchedUser].consumed_budget = mlast.before.consumed_budget
    /\ Len(transactions[SchedUser]) > 0

MaxBudget == 2          \* total_budget of the states given to the instance
MaxAmount == 2          \* amounts of consume operations
MaxVersion == 3         \* versions are followed up to MaxVersion

NoState == <<>>
OtherInstance == "node2"
OperationTypes == {"consume", "reset", "update"}

BudgetState(total, consumed, version) ==
    [total_budget |-> total, consumed_budget |-> consumed, version |-> version]

\* the states a caller or another instance holds: 0 <= consumed <= total
ValidStates ==
    {s \in [total_budget : 1..MaxBudget, consumed_budget : 0..MaxBudget,
            version : 0..(MaxVersion - 1)] : s.consumed_budget <= s.total_budget}

NoBudgetCall == [op |-> "none", before |-> NoState, remote |-> NoState]

InitMerge ==
    /\ accounts = [u \in Users |-> NoAccount]
    /\ transactions = [u \in Users |-> <<>>]
    /\ now = 0
    /\ BurstIdle
    /\ DriverIdle
    /\ AuditIdle
    /\ LimiterIdle
    /\ ConfigIdle
    /\ KAnonIdle
    /\ PolicyIdle
    /\ SyncIdle
    /\ LoopsIdle
    /\ ScheduleIdle
    /\ ConsumeIdle
    /\ PendingIdle
    /\ CoordIdle
    /\ CacheIdle
    /\ ConfigFileIdle
    /\ bud = [local |-> NoState, last |-> NoBudgetCall]

\* set_budget_state
set_budget_state(local, total, consumed) ==
    IF local # NoState
    THEN <<[local[1] EXCEPT !.total_budget = total, !.consumed_budget = consumed,
                            !.version = @ + 1]>>
    ELSE <<BudgetState(total, consumed, 0)>>

\* consume_budget with the lock acquired: the state it leaves
sync_consume_budget(local, amount) ==
    IF local = NoState THEN local
    ELSE IF local[1].total_budget - local[1].consumed_budget < amount THEN local
    ELSE <<[local[1] EXCEPT !.consumed_budget = @ + amount, !.version = @ + 1]>>

\* reset_budget with the lock acquired
sync_reset_budget(local) ==
    IF local = NoState THEN local
    ELSE <<[local[1] EXCEPT !.consumed_budget = 0, !.version = @ + 1]>>

\* apply_remote_operation
apply_remote_operation(local, type, amount, source) ==
    IF source = InstanceId THEN local
    ELSE IF local = NoState THEN local
    ELSE <<[local[1] EXCEPT
              !.consumed_budget = IF type = "consume" THEN @ + amount
                                  ELSE IF type = "reset" THEN 0 ELSE @,
              !.version = @ + 1]>>

\* sync_state for one user of remote_states
sync_state_remote_wins_ties(local, remote) ==
    IF local = NoState THEN remote
    ELSE IF remote[1].version >= local[1].version THEN remote
    ELSE local

sync_state(local, remote) ==
    IF local = NoState THEN remote
    ELSE IF remote[1].version > local[1].version THEN remote
    ELSE IF remote[1].version = local[1].version
         THEN IF remote[1].consumed_budget > local[1].consumed_budget
              THEN <<[local[1] EXCEPT !.consumed_budget = remote[1].consumed_budget]>>
              ELSE local
    ELSE local

\* versions stay within the bound of the run
VersionBounded(local) == IF local = NoState THEN TRUE ELSE local[1].version <= MaxVersion

BudgetCall(op, new, remote) ==
    /\ VersionBounded(new)
    /\ bud' = [local |-> new,
               last |-> [op |-> op, before |-> bud.local, remote |-> remote]]
    /\ UNCHANGED <<pipelineVars, rlVars, cfgVars, ka, pol, sync, loops, mlast, cons, pend, coord, qc, cm>>

BSetBudgetState(s) ==
    BudgetCall("set_budget_state",
               set_budget_state(bud.local, s.total_budget, s.consumed_budget), NoState)

BConsumeBudget(amount) ==
    BudgetCall("consume_budget", sync_consume_budget(bud.local, amount), NoState)

BResetBudget == BudgetCall("reset_budget", sync_reset_budget(bud.local), NoState)

BApplyRemoteOperation(type, amount, source) ==
    BudgetCall("apply_remote_operation",
               apply_remote_operation(bud.local, type, amount, source), NoState)

\* sync_state({user: remote}); an empty remote_states changes nothing
BSyncState(remote) ==
    BudgetCall("sync_state", sync_state(bud.local, remote), remote)

NextMerge ==
    \/ \E s \in ValidStates : BSetBudgetState(s)
    \/ \E amount \in 1..MaxAmount : BConsumeBudget(amount)
    \/ BResetBudget
    \/ \E type \in OperationTypes, amount \in 1..MaxAmount,
          source \in {InstanceId, OtherInstance} :
            BApplyRemoteOperation(type, amount, source)
    \/ \E s \in ValidStates : BSyncState(<<s>>)

SpecMerge == InitMerge /\ [][NextMerge]_vars

\* C21: after sync_state the local state of a user of remote_states is the
\* remote state when the user was unknown or the remote version is higher,
\* the previous local state when the local version is higher, and on equal
\* versions the previous local state with the larger of the two consumed
\* values.
C21_HigherVersionWins ==
    bud.last.op = "sync_state" =>
        LET b == bud.last.before
            r == bud.last.remote
        IN /\ b = NoState => bud.local = r
           /\ (b # NoState /\ r[1].version > b[1].version) => bud.local = r
           /\ (b # NoState /\ r[1].version < b[1].version) => bud.local = b
           /\ (b # NoState /\ r[1].version = b[1].version) =>
                 bud.local = <<[b[1] EXCEPT !.consumed_budget =
                                   Max(b[1].consumed_budget, r[1].consumed_budget)]>>

\* a sync_state that met a remote state of the same version with more
\* consumed and a different total, and took over the consumed value only
C21_Witness ==
    /\ bud.last.op = "sync_state"
    /\ bud.last.before # NoState
    /\ bud.last.remote[1].version = bud.last.before[1].version
    /\ bud.last.remote[1].consumed_budget > bud.last.before[1].consumed_budget
    /\ bud.local[1].consumed_budget = bud.last.remote[1].consumed_budget
    /\ bud.local # bud.last.remote

\* C22: the local BudgetState always satisfies 0 <= consumed_budget <=
\* total_budget.
C22_SyncBudgetInvariant ==
    bud.local # NoState =>
        /\ 0 <= bud.local[1].consumed_budget
        /\ bud.local[1].consumed_budget <= bud.local[1].total_budget

(***************************************************************************)
(* DistributedBudgetSync.consume_budget / reset_budget called by several   *)
(* threads of one instance for one user: acquire_lock, the update under    *)
(* self._lock, and release_lock in the finally block.  cons.owner is the   *)
(* thread whose acquire_lock stored the lock now in the table              *)
(***************************************************************************)
NoOwner == 0

CallerStart == [pc |-> "idle", start |-> 0, acquired_at |-> 0]

InitConsume ==
    /\ accounts = [u \in Users |-> NoAccount]
    /\ transactions = [u \in Users |-> <<>>]
    /\ now = 0
    /\ BurstIdle
    /\ DriverIdle
    /\ AuditIdle
    /\ LimiterIdle
    /\ ConfigIdle
    /\ KAnonIdle
    /\ PolicyIdle
    /\ SyncIdle
    /\ LoopsIdle
    /\ ScheduleIdle
    /\ BudgetSyncIdle
    /\ PendingIdle
    /\ CoordIdle
    /\ CacheIdle
    /\ ConfigFileIdle
    /\ \E lt \in 1..MaxLockTimeout :
          cons = [clock |-> 0, lock_timeout |-> lt, lock |-> NoLock, owner |-> NoOwner,
                  th |-> [t \in Lockers |-> CallerStart]]

\* consume_budget / reset_budget entered: acquire_lock(user_id) starts
CCall(t) ==
    /\ cons.th[t].pc = "idle"
    /\ cons' = [cons EXCEPT !.th[t].pc = "acquire", !.th[t].start = cons.clock]
    /\ UNCHANGED <<pipelineVars, rlVars, cfgVars, ka, pol, sync, loops, mlast, bud, pend, coord, qc, cm>>

\* one pass of the loop of acquire_lock, timeout = self.lock_timeout
CAcquire(t) ==
    /\ cons.th[t].pc = "acquire"
    /\ IF cons.clock - cons.th[t].start < effective_timeout(NoTimeout, cons.lock_timeout)
       THEN IF cons.lock = NoLock
               \/ lock_expired(cons.lock[1].acquired_at, cons.clock, cons.lock_timeout)
            THEN cons' = [cons EXCEPT
                            !.lock = <<[holder |-> InstanceId, acquired_at |-> cons.clock]>>,
                            !.owner = t,
                            !.th[t].pc = "critical",
                            !.th[t].acquired_at = cons.clock]
            ELSE UNCHANGED cons
       ELSE cons' = [cons EXCEPT !.th[t].pc = "done"]
    /\ UNCHANGED <<pipelineVars, rlVars, cfgVars, ka, pol, sync, loops, mlast, bud, pend, coord, qc, cm>>

\* the try block: the state is read and updated under self._lock
CUpdate(t) ==
    /\ cons.th[t].pc = "critical"
    /\ cons' = [cons EXCEPT !.th[t].pc = "finally"]
    /\ UNCHANGED <<pipelineVars, rlVars, cfgVars, ka, pol, sync, loops, mlast, bud, pend, coord, qc, cm>>

\* finally: self.release_lock(user_id)
CRelease(t) ==
    /\ cons.th[t].pc = "finally"
    /\ LET freed == cons.lock # NoLock /\ cons.lock[1].holder = InstanceId
       IN cons' = [cons EXCEPT
                     !.lock = IF freed THEN NoLock ELSE @,
                     !.owner = IF freed THEN NoOwner ELSE @,
                     !.th[t].pc = "done"]
    /\ UNCHANGED <<pipelineVars, rlVars, cfgVars, ka, pol, sync, loops, mlast, bud, pend, coord, qc, cm>>

CTick ==
    /\ cons.clock < MaxSyncClock
    /\ cons' = [cons EXCEPT !.clock = @ + 1]
    /\ UNCHANGED <<pipelineVars, rlVars, cfgVars, ka, pol, sync, loops, mlast, bud, pend, coord, qc, cm>>

NextConsume ==
    \/ \E t \in Lockers : CCall(t)
    \/ \E t \in Lockers : CAcquire(t)
    \/ \E t \in Lockers : CUpdate(t)
    \/ \E t \in Lockers : CRelease(t)
    \/ CTick

SpecConsume == InitConsume /\ [][NextConsume]_vars

\* C26: a caller that has acquired the lock and not yet released it keeps
\* it in the table, as its own, for as long as it has not expired: no other
\* caller's release_lock removes it.
C26_ReleaseOnlyOwn ==
    \A t \in DOMAIN cons.th :
        ( /\ cons.th[t].pc \in {"critical", "finally"}
          /\ ~lock_expired(cons.th[t].acquired_at, cons.clock, cons.lock_timeout) ) =>
            /\ cons.lock = <<[holder |-> InstanceId, acquired_at |-> cons.th[t].acquired_at]>>
            /\ cons.owner = t

(***************************************************************************)
(* DistributedBudgetSync: the pending buffer, filled by consume_budget and *)
(* reset_budget, read by the sync loop for each registered callback and    *)
(* emptied by clear_pending_operations.  Operations are numbered in the    *)
(* order they are appended; pend.delivered is what each callback was given *)
(***************************************************************************)
NumCallbacks == 2       \* callbacks registered with on_sync
MaxOps == 2             \* operations appended in a run

Callbacks == 1..NumCallbacks

InitPending ==
    /\ accounts = [u \in Users |-> NoAccount]
    /\ transactions = [u \in Users |-> <<>>]
    /\ now = 0
    /\ BurstIdle
    /\ DriverIdle
    /\ AuditIdle
    /\ LimiterIdle
    /\ ConfigIdle
    /\ KAnonIdle
    /\ PolicyIdle
    /\ SyncIdle
    /\ LoopsIdle
    /\ ScheduleIdle
    /\ BudgetSyncIdle
    /\ ConsumeIdle
    /\ CoordIdle
    /\ CacheIdle
    /\ ConfigFileIdle
    /\ \E clears \in [Callbacks -> BOOLEAN] :
          pend = [pending |-> <<>>, appended |-> 0, clears |-> clears,
                  delivered |-> [cb \in Callbacks |-> {}],
                  pc |-> "sleep", cb |-> 1, snapshot |-> <<>>]

\* a successful consume_budget or reset_budget:
\* self._pending_operations.append(operation)
PAppend ==
    /\ pend.appended < MaxOps
    /\ pend' = [pend EXCEPT !.appended = @ + 1,
                            !.pending = Append(@, pend.appended + 1)]
    /\ UNCHANGED <<pipelineVars, rlVars, cfgVars, ka, pol, sync, loops, mlast, bud, cons, coord, qc, cm>>

\* sync_loop wakes and starts a pass over self._sync_callbacks
PWake ==
    /\ pend.pc = "sleep"
    /\ pend' = [pend EXCEPT !.pc = "snapshot", !.cb = 1]
    /\ UNCHANGED <<pipelineVars, rlVars, cfgVars, ka, pol, sync, loops, mlast, bud, cons, coord, qc, cm>>

\* self.get_pending_operations(): a copy of the buffer, taken under the lock
PSnapshot ==
    /\ pend.pc = "snapshot"
    /\ pend' = [pend EXCEPT !.pc = "callback", !.snapshot = pend.pending]
    /\ UNCHANGED <<pipelineVars, rlVars, cfgVars, ka, pol, sync, loops, mlast, bud, cons, coord, qc, cm>>

\* callback(snapshot): the callback has the snapshot
PCallback ==
    /\ pend.pc = "callback"
    /\ pend' = [pend EXCEPT
                  !.delivered[pend.cb] = @ \cup SeqRange(pend.snapshot),
                  !.pc = IF pend.clears[pend.cb] THEN "clear"
                         ELSE IF pend.cb < NumCallbacks THEN "snapshot" ELSE "sleep",
                  !.cb = IF ~pend.clears[pend.cb] /\ pend.cb < NumCallbacks
                         THEN @ + 1 ELSE @]
    /\ UNCHANGED <<pipelineVars, rlVars, cfgVars, ka, pol, sync, loops, mlast, bud, cons, coord, qc, cm>>

\* the callback calls clear_pending_operations and returns
PClear ==
    /\ pend.pc = "clear"
    /\ pend' = [pend EXCEPT
                  !.pending = <<>>,
                  !.pc = IF pend.cb < NumCallbacks THEN "snapshot" ELSE "sleep",
                  !.cb = IF pend.cb < NumCallbacks THEN @ + 1 ELSE @]
    /\ UNCHANGED <<pipelineVars, rlVars, cfgVars, ka, pol, sync, loops, mlast, bud, cons, coord, qc, cm>>

NextPending ==
    \/ PAppend
    \/ PWake
    \/ PSnapshot
    \/ PCallback
    \/ PClear

SpecPending == InitPending /\ [][NextPending]_vars

\* C28: an operation that has left the pending buffer was given to every
\* registered callback before.
C28_DeliveredBeforeRemoved ==
    pend # <<>> =>
        \A op \in 1..pend.appended :
            op \notin SeqRange(pend.pending) =>
                \A cb \in Callbacks : op \in pend.delivered[cb]

(***************************************************************************)
(* DistributedCoordinator: one registered instance under heartbeats,       *)
(* health checks and drain_instance, with a registered callback that may   *)
(* call back into the coordinator; time in seconds.  coord.checks is the   *)
(* list of times at which health checks looked at the instance since its   *)
(* last heartbeat                                                          *)
(***************************************************************************)
MaxCoordClock == 4      \* the clock of these runs stops at MaxCoordClock seconds
MaxHcTimeout == 2       \* health_check_timeout is drawn from 1..MaxHcTimeout
MaxFailures == 2        \* max_health_check_failures is drawn from 1..MaxFailures
MaxChecks == 3          \* health checks between two heartbeats

\* register: status HEALTHY, last_heartbeat = now, no failures; the lock free
InitCoord ==
    /\ accounts = [u \in Users |-> NoAccount]
    /\ transactions = [u \in Users |-> <<>>]
    /\ now = 0
    /\ BurstIdle
    /\ DriverIdle
    /\ AuditIdle
    /\ LimiterIdle
    /\ ConfigIdle
    /\ KAnonIdle
    /\ PolicyIdle
    /\ SyncIdle
    /\ LoopsIdle
    /\ ScheduleIdle
    /\ BudgetSyncIdle
    /\ ConsumeIdle
    /\ PendingIdle
    /\ CacheIdle
    /\ ConfigFileIdle
    /\ \E to \in 1..MaxHcTimeout, mf \in 1..MaxFailures, re \in BOOLEAN :
          coord = [clock |-> 0, health_check_timeout |-> to,
                   max_health_check_failures |-> mf, callback_reenters |-> re,
                   status |-> "healthy", last_heartbeat |-> 0,
                   health_check_failures |-> 0,
                   lock |-> "free", drained |-> FALSE, checks |-> <<>>]

\* a callback runs while the caller holds self._lock: one that calls a
\* coordinator method waits for the lock its own thread holds
LockAfterCallback(notified) ==
    IF notified /\ coord.callback_reenters THEN "held" ELSE "free"

\* elapsed > self.health_check_timeout
missed_heartbeat_at_timeout(elapsed, timeout) == elapsed >= timeout

missed_heartbeat(elapsed, timeout) == elapsed > timeout

\* heartbeat
KHeartbeat ==
    /\ coord.lock = "free"
    /\ coord' = [coord EXCEPT
                   !.last_heartbeat = coord.clock,
                   !.health_check_failures = 0,
                   !.status = IF @ = "unhealthy" THEN "healthy" ELSE @,
                   !.checks = <<>>,
                   !.lock = LockAfterCallback(coord.status = "unhealthy")]
    /\ UNCHANGED <<pipelineVars, rlVars, cfgVars, ka, pol, sync, loops, mlast, bud, cons, pend, qc, cm>>

\* _perform_health_check
KHealthCheck ==
    /\ coord.lock = "free"
    /\ Len(coord.checks) < MaxChecks
    /\ LET missed == /\ coord.status # "stopped"
                     /\ missed_heartbeat(coord.clock - coord.last_heartbeat,
                                         coord.health_check_timeout)
           failures == IF missed THEN coord.health_check_failures + 1
                       ELSE coord.health_check_failures
           turns == /\ missed
                    /\ failures >= coord.max_health_check_failures
                    /\ coord.status # "unhealthy"
       IN coord' = [coord EXCEPT
                      !.health_check_failures = failures,
                      !.status = IF turns THEN "unhealthy" ELSE @,
                      !.checks = Append(@, coord.clock),
                      !.lock = LockAfterCallback(turns)]
    /\ UNCHANGED <<pipelineVars, rlVars, cfgVars, ka, pol, sync, loops, mlast, bud, cons, pend, qc, cm>>

\* drain_instance: set_instance_status(instance_id, DRAINING)
KDrainInstance ==
    /\ coord.lock = "free"
    /\ coord' = [coord EXCEPT
                   !.status = "draining",
                   !.drained = TRUE,
                   !.lock = LockAfterCallback(coord.status # "draining")]
    /\ UNCHANGED <<pipelineVars, rlVars, cfgVars, ka, pol, sync, loops, mlast, bud, cons, pend, qc, cm>>

KTick ==
    /\ coord.clock < MaxCoordClock
    /\ coord' = [coord EXCEPT !.clock = @ + 1]
    /\ UNCHANGED <<pipelineVars, rlVars, cfgVars, ka, pol, sync, loops, mlast, bud, cons, pend, qc, cm>>

NextCoord ==
    \/ KHeartbeat
    \/ KHealthCheck
    \/ KDrainInstance
    \/ KTick

SpecCoord == InitCoord /\ [][NextCoord]_vars

\* the health checks since the last heartbeat that found the heartbeat
\* older than health_check_timeout
MissedChecks ==
    Cardinality({i \in DOMAIN coord.checks :
                    coord.checks[i] - coord.last_heartbeat > coord.health_check_timeout})

\* C24: under heartbeats and health checks alone the instance is UNHEALTHY
\* exactly when the health checks since its last heartbeat that found now -
\* last_heartbeat > health_check_timeout number at least
\* max_health_check_failures, and HEALTHY otherwise; after a heartbeat the
\* failure count is 0.
C24_UnhealthyAfterMisses ==
    (coord # <<>> /\ ~coord.drained) =>
        /\ coord.status = IF MissedChecks >= coord.max_health_check_failures
                          THEN "unhealthy" ELSE "healthy"
        /\ coord.checks = <<>> => coord.health_check_failures = 0

\* an instance that passed a health check, then missed two and became
\* UNHEALTHY at the second
C24_Witness ==
    /\ coord.status = "unhealthy"
    /\ ~coord.drained
    /\ coord.max_health_check_failures = 2
    /\ Len(coord.checks) = 3
    /\ MissedChecks = 2

\* C27: an instance put in DRAINING by drain_instance is not made HEALTHY
\* by heartbeats and health checks.
C27_DrainingStays ==
    (coord # <<>> /\ coord.drained) => coord.status # "healthy"

\* C30: heartbeat, set_instance_status and the health check always release
\* the coordinator lock, also when a registered callback calls a
\* coordinator method.
C30_LockReleased ==
    coord # <<>> => coord.lock = "free"

(***************************************************************************)
(* QueryCache: the OrderedDict of entries, oldest first, under get, set    *)
(* and invalidate; time in seconds, sizes in bytes.  qc.recent lists the   *)
(* keys by the last call that set them or returned them from get, the      *)
(* latest last                                                             *)
(***************************************************************************)
MaxCacheEntries == 2    \* max_entries is drawn from 1..MaxCacheEntries
MaxMemory == 2          \* max_memory_bytes is drawn from 1..MaxMemory
MaxTtl == 1             \* the ttl of an entry is drawn from 1..MaxTtl
MaxCacheClock == 2      \* the clock of these runs stops at MaxCacheClock seconds
MaxCacheOps == 4        \* get, set and invalidate calls in a run

CacheKeys == {"q1", "q2", "q3"}

\* sys.getsizeof of the value cached for each query
CacheSize == [k \in CacheKeys |-> IF k = "q2" THEN 2 ELSE 1]

\* no call since the clock last moved
NoCacheCall == [op |-> "none", key |-> "", before |-> <<>>]

InitCache ==
    /\ accounts = [u \in Users |-> NoAccount]
    /\ transactions = [u \in Users |-> <<>>]
    /\ now = 0
    /\ BurstIdle
    /\ DriverIdle
    /\ AuditIdle
    /\ LimiterIdle
    /\ ConfigIdle
    /\ KAnonIdle
    /\ PolicyIdle
    /\ SyncIdle
    /\ LoopsIdle
    /\ ScheduleIdle
    /\ BudgetSyncIdle
    /\ ConsumeIdle
    /\ PendingIdle
    /\ CoordIdle
    /\ ConfigFileIdle
    /\ \E me \in 1..MaxCacheEntries, mm \in 1..MaxMemory :
          qc = [clock |-> 0, max_entries |-> me, max_memory_bytes |-> mm,
                cache |-> <<>>, current_memory |-> 0, ops |-> 0,
                recent |-> <<>>, last |-> NoCacheCall]

\* CacheEntry.is_expired
is_expired(entry, t) == t - entry.created_at > entry.ttl_seconds

CacheHas(cache, key) == \E i \in DOMAIN cache : cache[i].key = key

CacheWithout(cache, key) == SelectSeq(cache, LAMBDA e : e.key # key)

RECURSIVE CacheBytes(_)
CacheBytes(cache) ==
    IF cache = <<>> THEN 0 ELSE Head(cache).size_bytes + CacheBytes(Tail(cache))

\* _remove: pop the entry and give back its bytes
remove(c, key) ==
    IF CacheHas(c.cache, key)
    THEN [cache |-> CacheWithout(c.cache, key),
          current_memory |-> c.current_memory
                               - CacheBytes(SelectSeq(c.cache, LAMBDA e : e.key = key))]
    ELSE c

\* the expired keys, removed one by one
drop_expired(c, t) ==
    [cache |-> SelectSeq(c.cache, LAMBDA e : ~is_expired(e, t)),
     current_memory |-> c.current_memory
                          - CacheBytes(SelectSeq(c.cache, LAMBDA e : is_expired(e, t)))]

\* while len(self._cache) >= self.max_entries: remove the first key
RECURSIVE evict_entries(_, _)
evict_entries(c, entry_limit) ==
    IF Len(c.cache) >= entry_limit /\ c.cache # <<>>
    THEN evict_entries(remove(c, Head(c.cache).key), entry_limit)
    ELSE c

\* while self._current_memory > self.max_memory_bytes and self._cache:
\* remove the first key
RECURSIVE evict_memory(_, _)
evict_memory(c, max_memory_bytes) ==
    IF c.current_memory > max_memory_bytes /\ c.cache # <<>>
    THEN evict_memory(remove(c, Head(c.cache).key), max_memory_bytes)
    ELSE c

\* _evict_if_needed
evict_if_needed(c, t, entry_limit, max_memory_bytes) ==
    evict_memory(evict_entries(drop_expired(c, t), entry_limit), max_memory_bytes)

\* OrderedDict.move_to_end
move_to_end_keeps_place(cache, key) == cache

move_to_end(cache, key) ==
    CacheWithout(cache, key) \o SelectSeq(cache, LAMBDA e : e.key = key)

CacheCall(op, key) == [op |-> op, key |-> key, before |-> qc.cache]

\* get
QGet(key) ==
    /\ qc.ops < MaxCacheOps
    /\ LET c == [cache |-> qc.cache, current_memory |-> qc.current_memory]
           entry == CHOOSE e \in {qc.cache[i] : i \in DOMAIN qc.cache} : e.key = key
       IN IF ~CacheHas(qc.cache, key)
          THEN qc' = [qc EXCEPT !.ops = @ + 1, !.last = CacheCall("miss", key)]
          ELSE IF is_expired(entry, qc.clock)
          THEN qc' = [qc EXCEPT !.cache = remove(c, key).cache,
                                !.current_memory = remove(c, key).current_memory,
                                !.ops = @ + 1,
                                !.last = CacheCall("miss", key)]
          ELSE qc' = [qc EXCEPT !.cache = move_to_end(@, key),
                                !.ops = @ + 1,
                                !.recent = Append(SelectSeq(@, LAMBDA k : k # key), key),
                                !.last = CacheCall("hit", key)]
    /\ UNCHANGED <<pipelineVars, rlVars, cfgVars, ka, pol, sync, loops, mlast, bud, cons, pend, coord, cm>>

\* set
QSet(key, ttl) ==
    /\ qc.ops < MaxCacheOps
    /\ LET c == evict_if_needed(
                   remove([cache |-> qc.cache, current_memory |-> qc.current_memory], key),
                   qc.clock, qc.max_entries, qc.max_memory_bytes)
           entry == [key |-> key, created_at |-> qc.clock,
                     ttl_seconds |-> ttl, size_bytes |-> CacheSize[key]]
       IN qc' = [qc EXCEPT !.cache = Append(c.cache, entry),
                           !.current_memory = c.current_memory + CacheSize[key],
                           !.ops = @ + 1,
                           !.recent = Append(SelectSeq(@, LAMBDA k : k # key), key),
                           !.last = CacheCall("set", key)]
    /\ UNCHANGED <<pipelineVars, rlVars, cfgVars, ka, pol, sync, loops, mlast, bud, cons, pend, coord, cm>>

\* invalidate
QInvalidate(key) ==
    /\ qc.ops < MaxCacheOps
    /\ LET c == remove([cache |-> qc.cache, current_memory |-> qc.current_memory], key)
       IN qc' = [qc EXCEPT !.cache = c.cache,
                           !.current_memory = c.current_memory,
                           !.ops = @ + 1,
                           !.last = CacheCall("invalidate", key)]
    /\ UNCHANGED <<pipelineVars, rlVars, cfgVars, ka, pol, sync, loops, mlast, bud, cons, pend, coord, cm>>

QTick ==
    /\ qc.clock < MaxCacheClock
    /\ qc' = [qc EXCEPT !.clock = @ + 1, !.last = NoCacheCall]
    /\ UNCHANGED <<pipelineVars, rlVars, cfgVars, ka, pol, sync, loops, mlast, bud, cons, pend, coord, cm>>

NextCache ==
    \/ \E key \in CacheKeys : QGet(key)
    \/ \E key \in CacheKeys, ttl \in 1..MaxTtl : QSet(key, ttl)
    \/ \E key \in CacheKeys : QInvalidate(key)
    \/ QTick

SpecCache == InitCache /\ [][NextCache]_vars

CachedKeys(cache) == {cache[i].key : i \in DOMAIN cache}

\* the key of the cache that was least recently set or returned by get
LeastRecentlyUsed(cache) ==
    Head(SelectSeq(qc.recent, LAMBDA k : k \in CachedKeys(cache)))

\* the last call set a new key into a full cache of unexpired entries
SetIntoFullCache ==
    /\ qc.last.op = "set"
    /\ ~CacheHas(qc.last.before, qc.last.key)
    /\ Len(qc.last.before) = qc.max_entries
    /\ \A i \in DOMAIN qc.last.before : ~is_expired(qc.last.before[i], qc.clock)

\* the bytes left in use by the eviction of the least recently used entry
BytesAfterEviction ==
    CacheBytes(CacheWithout(qc.last.before, LeastRecentlyUsed(qc.last.before)))

EvictedExactlyLRU ==
    CachedKeys(qc.cache) =
        (CachedKeys(qc.last.before) \ {LeastRecentlyUsed(qc.last.before)})
            \cup {qc.last.key}

\* C23: the cache never holds more than max_entries entries, and a set of a
\* new key into a full cache of unexpired entries whose remaining bytes fit
\* max_memory_bytes evicts exactly the least recently set or returned entry.
C23_EvictsLRU ==
    qc # <<>> =>
        /\ Len(qc.cache) <= qc.max_entries
        /\ (SetIntoFullCache /\ BytesAfterEviction <= qc.max_memory_bytes)
               => EvictedExactlyLRU

\* C23 as stated: whatever the bytes in use, the set evicts exactly the
\* least recently used entry.
C23_EvictsLRUAsStated ==
    qc # <<>> =>
        /\ Len(qc.cache) <= qc.max_entries
        /\ SetIntoFullCache => EvictedExactlyLRU

\* the entry created first was returned by a get after the second was set,
\* and the set of a third key evicted the second
C23_Witness ==
    /\ SetIntoFullCache
    /\ qc.max_entries = 2
    /\ BytesAfterEviction <= qc.max_memory_bytes
    /\ qc.last.before[2].created_at < qc.last.before[1].created_at
    /\ EvictedExactlyLRU

(***************************************************************************)
(* ConfigManager over its configuration file: the file is rewritten,       *)
(* removed or damaged from outside, and the configuration is reloaded by a *)
(* caller of reload or by the watcher thread                               *)
(***************************************************************************)
MaxMtime == 4           \* changes of the configuration file in a run

FileKinds == {"valid", "missing", "unreadable", "unparseable"}
FileContents == {"a", "b"}

\* no reload since the file last changed
NoReload == [op |-> "none", raised |-> FALSE, before |-> ""]

\* __init__ over a readable file holding configuration "a"
InitConfigFile ==
    /\ accounts = [u \in Users |-> NoAccount]
    /\ transactions = [u \in Users |-> <<>>]
    /\ now = 0
    /\ BurstIdle
    /\ DriverIdle
    /\ AuditIdle
    /\ LimiterIdle
    /\ ConfigIdle
    /\ KAnonIdle
    /\ PolicyIdle
    /\ SyncIdle
    /\ LoopsIdle
    /\ ScheduleIdle
    /\ BudgetSyncIdle
    /\ ConsumeIdle
    /\ PendingIdle
    /\ CoordIdle
    /\ CacheIdle
    /\ cm = [file |-> [kind |-> "valid", content |-> "a", mtime |-> 1],
             config |-> "a", last_modified |-> 1, last |-> NoReload]

\* _load_config: the configuration, _last_modified and whether it raised
load_config(m) ==
    IF m.file.kind = "missing"
    THEN [config |-> "default", last_modified |-> m.last_modified, raised |-> FALSE]
    ELSE IF m.file.kind = "valid"
    THEN [config |-> m.file.content, last_modified |-> m.file.mtime, raised |-> FALSE]
    ELSE [config |-> m.config, last_modified |-> m.last_modified, raised |-> TRUE]

\* the file is written, removed, made unreadable or damaged
MChangeFile(kind, content) ==
    /\ cm.file.mtime < MaxMtime
    /\ cm' = [cm EXCEPT !.file = [kind |-> kind, content |-> content,
                                  mtime |-> cm.file.mtime + 1],
                        !.last = NoReload]
    /\ UNCHANGED <<pipelineVars, rlVars, cfgVars, ka, pol, sync, loops, mlast, bud, cons, pend, coord, qc>>

\* reload, called by a user of the manager
MReload ==
    /\ LET l == load_config(cm)
       IN cm' = [cm EXCEPT !.config = l.config,
                           !.last_modified = l.last_modified,
                           !.last = [op |-> "reload", raised |-> l.raised,
                                     before |-> cm.config]]
    /\ UNCHANGED <<pipelineVars, rlVars, cfgVars, ka, pol, sync, loops, mlast, bud, cons, pend, coord, qc>>

\* one round of the watcher thread: reload when the file exists and is
\* newer than _last_modified, any exception swallowed
MWatch ==
    /\ cm.file.kind # "missing"
    /\ cm.file.mtime > cm.last_modified
    /\ LET l == load_config(cm)
       IN cm' = [cm EXCEPT !.config = l.config,
                           !.last_modified = l.last_modified,
                           !.last = [op |-> "watch", raised |-> FALSE,
                                     before |-> cm.config]]
    /\ UNCHANGED <<pipelineVars, rlVars, cfgVars, ka, pol, sync, loops, mlast, bud, cons, pend, coord, qc>>

NextConfigFile ==
    \/ \E kind \in FileKinds, content \in FileContents : MChangeFile(kind, content)
    \/ MReload
    \/ MWatch

SpecConfigFile == InitConfigFile /\ [][NextConfigFile]_vars

\* C25: a reload over a missing, unreadable or unparseable file raises
\* nothing to its caller and leaves the configuration as it was.
C25_FailedReloadKeepsConfig ==
    (cm # <<>> /\ cm.last.op = "reload" /\ cm.file.kind # "valid") =>
        /\ ~cm.last.raised
        /\ cm.config = cm.last.before

=============================================================================
